---- MODULE Spec2Model ----
(***************************************************************************)
(* A model of moleculekit's Molecule container (src/moleculekit/molecule.py)*)
(* : the per-atom arrays, the coordinate trajectory, the connectivity       *)
(* arrays, and the operations that mutate and merge them.                   *)
(*                                                                          *)
(* Conventions.  Atom indices and connectivity endpoints are 0-based, as in *)
(* the source; TLA+ sequences are 1-based, so row i of the source is        *)
(* element i+1 of a sequence.  A coordinate triple (x, y, z) of one atom in *)
(* one frame is one integer token; coords of shape (N, 3, F) is the record  *)
(* [rows |-> N rows of F tokens, nf |-> F].  A column of box / boxangles is *)
(* one integer token.  A raised exception is the err component of the       *)
(* result of an operation; the container keeps whatever the code had        *)
(* already assigned when the exception left the method.                     *)
(***************************************************************************)
EXTENDS Integers, Sequences, FiniteSets

VARIABLES mol, last, calls, uqid, peer

vars == <<mol, last, calls, uqid, peer>>

----------------------------------------------------------------------------
(* Bounds of the model *)

MaxAtoms == 4

MaxFrames == 4

MaxCalls == 2

MaxReads == 2

\* The calls made in a behaviour of the frame state machine.
MaxFrameCalls == 2

\* The bonds given to calculateUniqueBonds, the highest atom index in them,
\* and the calls made in a behaviour of its state machine.
MaxBonds == 3

MaxBondAtoms == 2

MaxBondCalls == 2

\* The calls made in the identity machine.
MaxIdCalls == 3

\* The atoms named in the arguments of setDihedral, and the calls made in its
\* machine.
MaxDihedralAtoms == 4

MaxDihedralCalls == 2

\* The calls made in the machine of two Molecules.
MaxShareCalls == 3

\* The reads made in the machine of reads that guess connectivity.
MaxGuessCalls == 2

----------------------------------------------------------------------------
(* Generic helpers *)

Range(s) == {s[i] : i \in 1..Len(s)}

Min(a, b) == IF a < b THEN a ELSE b

Max(a, b) == IF a < b THEN b ELSE a

\* The 1-based positions of s whose 0-based index is not in S, ascending.
KeptPositions(n, S) ==
    LET keep == {i \in 1..n : (i - 1) \notin S}
        nth(k) == CHOOSE i \in keep : Cardinality({j \in keep : j < i}) = k - 1
    IN  [k \in 1..Cardinality(keep) |-> nth(k)]

\* s[mask] / s[index array]: the rows at the given 1-based positions.
Take(s, pos) == [k \in 1..Len(pos) |-> s[pos[k]]]

\* The ascending sequence of a finite set of integers.
SortedSeq(S) ==
    LET nth(k) == CHOOSE i \in S : Cardinality({j \in S : j < i}) = k - 1
    IN  [k \in 1..Cardinality(S) |-> nth(k)]

\* The sequence of a finite set of pairs of integers, in lexicographic order.
SortedSeq2(B) ==
    LET before(p, q) == p[1] < q[1] \/ (p[1] = q[1] /\ p[2] < q[2])
        nth(k) == CHOOSE p \in B : Cardinality({q \in B : before(q, p)}) = k - 1
    IN  [k \in 1..Cardinality(B) |-> nth(k)]

\* The number of members of S below i.
Below(S, i) == Cardinality({j \in S : j < i})

----------------------------------------------------------------------------
(* The fields of a Molecule *)

AtomFields ==
    <<"record", "serial", "name", "altloc", "resname", "chain", "resid",
      "insertion", "occupancy", "beta", "segid", "element", "charge",
      "masses", "atomtype">>

ConnectivityFields == <<"bonds", "bondtype", "angles", "dihedrals", "impropers">>

\* _topo_fields without the trailing crystalinfo, which every loop skips.
TopoFields == AtomFields \o ConnectivityFields

AtomAndCoordFields == AtomFields \o <<"coords">>

\* The fields whose dtype is object (strings); all others are numeric.
ObjectFields ==
    {"record", "name", "altloc", "resname", "chain", "insertion", "segid",
     "element", "atomtype", "bondtype"}

EdgeFields == <<"bonds", "angles", "dihedrals", "impropers">>

\* Molecule.__init__: every array empty, _frame = 0.
NewMolecule ==
    [record |-> <<>>, serial |-> <<>>, name |-> <<>>, altloc |-> <<>>,
     resname |-> <<>>, chain |-> <<>>, resid |-> <<>>, insertion |-> <<>>,
     occupancy |-> <<>>, beta |-> <<>>, segid |-> <<>>, element |-> <<>>,
     charge |-> <<>>, masses |-> <<>>, atomtype |-> <<>>,
     coords |-> [rows |-> <<>>, nf |-> 0],
     box |-> <<>>, boxangles |-> <<>>,
     bonds |-> <<>>, bondtype |-> <<>>, angles |-> <<>>, dihedrals |-> <<>>,
     impropers |-> <<>>,
     fileloc |-> <<>>, time |-> <<>>, step |-> <<>>, frame |-> 0]

\* Molecule._empty(numAtoms, field)
EmptyField(n, field) ==
    IF field = "coords" THEN [rows |-> [i \in 1..n |-> <<>>], nf |-> 0]
    ELSE IF field = "serial" THEN [i \in 1..n |-> i]
    ELSE IF field = "record" THEN [i \in 1..n |-> "ATOM"]
    ELSE IF field \in ObjectFields THEN [i \in 1..n |-> ""]
    ELSE [i \in 1..n |-> 0]

\* len(m.<field>): the first dimension.
FLen(m, field) == IF field = "coords" THEN Len(m.coords.rows) ELSE Len(m[field])

\* np.size(m.<field>) = 0
FSizeZero(m, field) ==
    IF field = "coords" THEN Len(m.coords.rows) = 0 \/ m.coords.nf = 0
    ELSE Len(m[field]) = 0

numAtomsTopo(m) == Len(m.record)

numAtomsTraj(m) == Len(m.coords.rows)

numAtoms(m) == IF numAtomsTopo(m) # 0 THEN numAtomsTopo(m) ELSE numAtomsTraj(m)

numFrames(m) == m.coords.nf

\* np.zeros((3, n)): box / boxangles of n frames.
Zeros(n) == [i \in 1..n |-> 0]

----------------------------------------------------------------------------
(* Results of operations: the container and the exception raised, if any *)

Ok(m) == [m |-> m, err |-> "none"]

Raise(m, e) == [m |-> m, err |-> e]

----------------------------------------------------------------------------
(* numpy primitives *)

\* np.delete(arr, S, axis=0) on a sequence of rows.  An index beyond the end
\* raises IndexError in numpy >= 1.19 (strict) and is ignored with a
\* DeprecationWarning in the older releases this code also runs on.
NpDeleteFails(n, S, strict) == strict /\ \E i \in S : i >= n

NpDelete(s, S) == Take(s, KeptPositions(Len(s), S))

\* np.insert(data1, index, data2, axis=0)
NpInsertFails(n, index) == index > n

NpInsert(data1, index, data2) ==
    SubSeq(data1, 1, index) \o data2 \o SubSeq(data1, index + 1, Len(data1))

----------------------------------------------------------------------------
(* Molecule._updateBondsAnglesDihedrals *)

\* A table that marks the removed atoms but leaves the other indices as they
\* were.
RemapTableNoShift(n, idx) ==
    [i \in 0..(n - 1) |-> IF i \in idx THEN -1 ELSE i]

\* map = ones(numAtoms); map[idx] = -1; map[map == 1] = arange(numAtoms - len(idx))
RemapTable(n, idx) ==
    [i \in 0..(n - 1) |-> IF i \in idx THEN -1 ELSE i - Below(idx, i)]

\* tempdata[:] = map[tempdata[:]] on one row
RemapRow(map, row) == [j \in 1..Len(row) |-> map[row[j]]]

\* stays = np.invert(np.any(tempdata == -1, axis=1)), as 1-based positions
StaysPositions(rows) ==
    KeptPositions(Len(rows), {i - 1 : i \in {j \in 1..Len(rows) : -1 \in Range(rows[j])}})

RECURSIVE UpdateEdges(_, _, _, _)
UpdateEdges(m, n, map, k) ==
    IF k > Len(EdgeFields) THEN Ok(m)
    ELSE LET field == EdgeFields[k]
             Assign(data, tempdata, stays) ==
                 IF field = "bonds" /\ Len(m.bondtype) # 0
                 THEN IF Len(m.bondtype) # Len(data)
                      THEN Raise([m EXCEPT ![field] = Take(tempdata, stays)], "IndexError")
                      ELSE UpdateEdges([m EXCEPT ![field] = Take(tempdata, stays),
                                                 !.bondtype = Take(m.bondtype, stays)],
                                       n, map, k + 1)
                 ELSE UpdateEdges([m EXCEPT ![field] = Take(tempdata, stays)],
                                  n, map, k + 1)
             Remap(data, tempdata) == Assign(data, tempdata, StaysPositions(tempdata))
             Step(data) ==
                 IF Len(data) = 0 THEN UpdateEdges(m, n, map, k + 1)
                 ELSE IF \E i \in 1..Len(data) : \E e \in Range(data[i]) : e >= n
                      THEN Raise(m, "IndexError")
                 ELSE Remap(data, [i \in 1..Len(data) |-> RemapRow(map, data[i])])
         IN  Step(m[field])

updateBondsAnglesDihedrals(m, idx) ==
    IF idx = {} THEN Ok(m)
    ELSE IF Len(m.bonds) = 0 /\ Len(m.dihedrals) = 0 /\ Len(m.impropers) = 0
            /\ Len(m.angles) = 0
         THEN Ok(m)
    ELSE UpdateEdges(m, numAtoms(m), RemapTable(numAtoms(m), idx), 1)

----------------------------------------------------------------------------
(* Molecule.remove, Molecule.filter *)

\* for k in _atom_and_coord_fields: self.__dict__[k] = np.delete(..., sel, axis=0)
RECURSIVE DeleteAtomRows(_, _, _, _)
DeleteAtomRows(m, sel, strict, k) ==
    IF k > Len(AtomAndCoordFields) THEN Ok(m)
    ELSE LET field == AtomAndCoordFields[k]
         IN  IF NpDeleteFails(FLen(m, field), sel, strict) THEN Raise(m, "IndexError")
             ELSE IF field = "coords"
                  THEN DeleteAtomRows(
                           [m EXCEPT !.coords.rows = NpDelete(m.coords.rows, sel)],
                           sel, strict, k + 1)
                  ELSE DeleteAtomRows([m EXCEPT ![field] = NpDelete(m[field], sel)],
                                      sel, strict, k + 1)

\* remove(selection): sel is the index array the selection resolves to.
remove(m, sel, strict) ==
    LET Delete(u) == IF u.err # "none" THEN u ELSE DeleteAtomRows(u.m, sel, strict, 1)
    IN  Delete(updateBondsAnglesDihedrals(m, sel))

\* filter(sel): s is the set of selected indices (the boolean mask).
filter(m, s, strict) ==
    IF \A i \in 0..(numAtoms(m) - 1) : i \in s THEN Ok(m)
    ELSE remove(m, (0..(numAtoms(m) - 1)) \ s, strict)

----------------------------------------------------------------------------
(* Molecule.insert, Molecule.append *)

\* self.bonds[self.bonds >= index] += mol.numAtoms
ShiftBonds(bonds, index, n) ==
    [i \in 1..Len(bonds) |->
        [j \in 1..Len(bonds[i]) |->
            IF bonds[i][j] >= index THEN bonds[i][j] + n ELSE bonds[i][j]]]

\* newbonds = mol.bonds.copy(); newbonds += index
OffsetBonds(bonds, index) ==
    [i \in 1..Len(bonds) |-> [j \in 1..Len(bonds[i]) |-> bonds[i][j] + index]]

\* The bond part of insert: shift the existing endpoints, append mol's bonds.
InsertBonds(m, mo, index) ==
    LET AddBonds(m1, newbonds) ==
            IF Len(mo.bonds) > 0
            THEN IF Len(m1.bonds) > 0
                 THEN [m1 EXCEPT !.bonds = m1.bonds \o newbonds,
                                 !.bondtype = m1.bondtype \o mo.bondtype]
                 ELSE [m1 EXCEPT !.bonds = newbonds, !.bondtype = mo.bondtype]
            ELSE m1
    IN  AddBonds(IF Len(m.bonds) > 0
                 THEN [m EXCEPT !.bonds = ShiftBonds(m.bonds, index, numAtoms(mo))]
                 ELSE m,
                 OffsetBonds(mo.bonds, index))

\* insertappend(index, data1, data2, append) on a per-atom array
InsertAppend(index, data1, data2, doAppend) ==
    IF Len(data1) = 0 THEN Ok(data2)
    ELSE IF Len(data2) = 0 THEN Ok(data1)
    ELSE IF doAppend THEN Ok(data1 \o data2)
    ELSE IF NpInsertFails(Len(data1), index) THEN Raise(data1, "IndexError")
    ELSE Ok(NpInsert(data1, index, data2))

\* insertappend(index, data1, data2, append) on coords
InsertAppendCoords(index, data1, data2, doAppend) ==
    IF Len(data1.rows) = 0 \/ data1.nf = 0 THEN Ok(data2)
    ELSE IF Len(data2.rows) = 0 \/ data2.nf = 0 THEN Ok(data1)
    ELSE IF data1.nf # data2.nf THEN Raise(data1, "ValueError")
    ELSE IF doAppend THEN Ok([data1 EXCEPT !.rows = data1.rows \o data2.rows])
    ELSE IF NpInsertFails(Len(data1.rows), index) THEN Raise(data1, "IndexError")
    ELSE Ok([data1 EXCEPT !.rows = NpInsert(data1.rows, index, data2.rows)])

\* for k in self._atom_and_coord_fields: ... insertappend(...)
RECURSIVE InsertFields(_, _, _, _, _)
InsertFields(m, mo, index, doAppend, k) ==
    IF k > Len(AtomAndCoordFields) THEN Ok(m)
    ELSE LET field == AtomAndCoordFields[k]
             Assign(r) ==
                 IF r.err # "none" THEN Raise(m, r.err)
                 ELSE InsertFields([m EXCEPT ![field] = r.m], mo, index, doAppend, k + 1)
             Step(data2) ==
                 IF field = "coords"
                 THEN Assign(InsertAppendCoords(index, m.coords, data2, doAppend))
                 ELSE Assign(InsertAppend(index, m[field], data2, doAppend))
         IN  IF field = "serial" THEN InsertFields(m, mo, index, doAppend, k + 1)
             ELSE Step(IF FSizeZero(mo, field) THEN EmptyField(numAtoms(mo), field)
                       ELSE mo[field])

\* insert(mol, index) with collisions=0.  `self = backup` in the except
\* clause rebinds the local name only, so the container keeps the partial
\* result; every exception leaves as NameError.
insert(m, mo, index) ==
    LET Renumber(m2) ==
            Ok([m2 EXCEPT !.serial = [i \in 1..numAtoms(m2) |-> i],
                          !.box = Zeros(numFrames(m2)),
                          !.boxangles = Zeros(numFrames(m2))])
        Finish(r) == IF r.err # "none" THEN Raise(r.m, "NameError") ELSE Renumber(r.m)
    IN  IF ~FSizeZero(m, "coords") /\ (m.coords.nf # 1 \/ mo.coords.nf # 1)
        THEN Raise(m, "NameError")
        ELSE Finish(InsertFields(InsertBonds(m, mo, index), mo, index,
                                 index = numAtoms(m), 1))

\* append(mol)
append(m, mo) == insert(m, mo, numAtoms(m))

----------------------------------------------------------------------------
(* Molecule.reorderAtoms *)

\* self.__dict__[field] = self.__dict__[field][order] over the atom fields
RECURSIVE ReorderFields(_, _, _)
ReorderFields(m, order, k) ==
    IF k > Len(AtomAndCoordFields) THEN Ok(m)
    ELSE LET field == AtomAndCoordFields[k]
             n == FLen(m, field)
             pos == [i \in 1..Len(order) |-> order[i] + 1]
         IN  IF n = 0 THEN ReorderFields(m, order, k + 1)
             ELSE IF \E i \in 1..Len(order) : order[i] >= n THEN Raise(m, "IndexError")
             ELSE IF field = "coords"
                  THEN ReorderFields([m EXCEPT !.coords.rows = Take(m.coords.rows, pos)],
                                     order, k + 1)
                  ELSE ReorderFields([m EXCEPT ![field] = Take(m[field], pos)],
                                     order, k + 1)

\* inverseorder = [np.where(order == i)[0][0] for i in np.arange(len(order))]
InverseOrderFails(order) ==
    \E i \in 0..(Len(order) - 1) : i \notin Range(order)

\* The order itself in place of its inverse.
InverseOrderForward(order) == [i \in 0..(Len(order) - 1) |-> order[i + 1]]

InverseOrder(order) ==
    [i \in 0..(Len(order) - 1) |->
        (CHOOSE j \in 1..Len(order) :
            order[j] = i /\ \A h \in 1..(j - 1) : order[h] # i) - 1]

\* self.__dict__[field] = inverseorder[self.__dict__[field]] over connectivity
RECURSIVE ReorderEdges(_, _, _)
ReorderEdges(m, inv, k) ==
    IF k > Len(ConnectivityFields) THEN Ok(m)
    ELSE LET field == ConnectivityFields[k]
             data == m[field]
         IN  IF Len(data) = 0 \/ field = "bondtype" THEN ReorderEdges(m, inv, k + 1)
             ELSE IF \E i \in 1..Len(data) : \E e \in Range(data[i]) : e \notin DOMAIN inv
                  THEN Raise(m, "IndexError")
             ELSE ReorderEdges(
                     [m EXCEPT ![field] = [i \in 1..Len(data) |-> RemapRow(inv, data[i])]],
                     inv, k + 1)

reorderAtoms(m, order) ==
    LET Edges(r) ==
            IF r.err # "none" THEN r
            ELSE IF InverseOrderFails(order) THEN Raise(r.m, "IndexError")
            ELSE ReorderEdges(r.m, InverseOrder(order), 1)
    IN  Edges(ReorderFields(m, order, 1))

----------------------------------------------------------------------------
(* Molecule.deleteBonds *)
\* A selection of the bonds that ignores inter: every bond touching sel.
BondsTouching(bonds, sel, inter) ==
    {i - 1 : i \in {j \in 1..Len(bonds) : bonds[j][1] \in sel \/ bonds[j][2] \in sel}}

\* todel, as the set of 0-based bond row indices
BondsToDelete(bonds, sel, inter) ==
    {i - 1 : i \in {j \in 1..Len(bonds) :
        IF inter THEN bonds[j][1] \in sel \/ bonds[j][2] \in sel
                 ELSE bonds[j][1] \in sel /\ bonds[j][2] \in sel}}

deleteBonds(m, sel, inter, strict) ==
    LET Delete(idx) ==
            IF NpDeleteFails(Len(m.bondtype), idx, strict)
            THEN Raise([m EXCEPT !.bonds = NpDelete(m.bonds, idx)], "IndexError")
            ELSE Ok([m EXCEPT !.bonds = NpDelete(m.bonds, idx),
                              !.bondtype = NpDelete(m.bondtype, idx)])
    IN  IF sel = {} THEN Ok(m) ELSE Delete(BondsToDelete(m.bonds, sel, inter))

----------------------------------------------------------------------------
(* Molecule.frame, Molecule.mutateResidue *)

\* The frame property: reading it raises when _frame is out of range.
FrameFails(m) == m.frame < 0 \/ m.frame >= numFrames(m)

BackboneNames == {"C", "CA", "N", "O"}

\* mutateResidue(sel, newres): s is the set of atoms the selection string
\* resolves to.  Evaluating a selection string reads the active frame.
mutateResidue(m, s, newres, strict) ==
    LET Rename(m1, kept) ==
            Ok([m1 EXCEPT !.resname =
                   [i \in 1..Len(m1.resname) |->
                       IF (i - 1) \in kept THEN newres ELSE m1.resname[i]]])
        Removed(r, remidx) ==
            IF r.err # "none" THEN r
            ELSE Rename(r.m, {i - Below(remidx, i) : i \in s \ remidx})
        Sidechain(remidx) == Removed(remove(m, remidx, strict), remidx)
    IN  IF FrameFails(m) THEN Raise(m, "NameError")
        ELSE IF s = {} THEN Raise(m, "NameError")
        ELSE Sidechain({i \in s : m.name[i + 1] \notin BackboneNames})

----------------------------------------------------------------------------
(* Molecule._emptyTopo, Molecule._emptyTraj, Molecule._guessMissingElements *)

emptyTopo(m, n) ==
    [f \in DOMAIN m |-> IF f \in Range(AtomFields) THEN EmptyField(n, f) ELSE m[f]]

emptyTraj(m, n) == [m EXCEPT !.coords = EmptyField(n, "coords"), !.box = <<>>]

\* The element deduction table (moleculekit.writers._getPDBElement applied to
\* the PDB atom name): deterministic, and never blank.
DeduceElement(name) ==
    IF name \in {"N", "N1"} THEN "N"
    ELSE IF name \in {"C", "CA", "CB", "C1"} THEN "C"
    ELSE IF name \in {"O", "O1"} THEN "O"
    ELSE "Xx"

guessMissingElements(m) ==
    [i \in 1..Len(m.element) |->
        IF m.element[i] = "" THEN DeduceElement(m.name[i]) ELSE m.element[i]]

----------------------------------------------------------------------------
(* Molecule._mergeTopologies *)

\* The overwrite argument: None, a string (s), or a list of strings (l).
OverwriteNone == [kind |-> "None", s |-> "", l |-> <<>>]

OverwriteStr(x) == [kind |-> "str", s |-> x, l |-> <<>>]

OverwriteList(x) == [kind |-> "list", s |-> "", l |-> x]

\* if isinstance(overwrite, str): overwrite = (overwrite, )
NormalizeOverwrite(ow) ==
    IF ow.kind = "str" THEN [kind |-> "tuple", s |-> "", l |-> <<ow.s>>] ELSE ow

\* overwrite == 'all', evaluated after the normalisation above: a tuple or a
\* list never equals a string.
OverwriteEqualsAll(ow) == ow.kind = "str" /\ ow.s = "all"

\* A policy that only honours the fields it lists.
OverwritesListed(ow, field) == ow.kind # "None" /\ field \in Range(ow.l)

\* overwrite is not None and ((overwrite[0] == 'all') or (field in overwrite))
Overwrites(ow, field) ==
    ow.kind # "None" /\ (ow.l[1] = "all" \/ field \in Range(ow.l))

\* "all values in the new mol are empty or zero"
AllDefault(field, data) ==
    \/ Len(data) = 0
    \/ field \in ObjectFields /\ \A i \in 1..Len(data) : data[i] = ""
    \/ field \notin ObjectFields /\ field \in Range(AtomFields)
          /\ \A i \in 1..Len(data) : data[i] = 0
    \/ field \notin ObjectFields /\ field \notin Range(AtomFields)
          /\ \A i \in 1..Len(data) : \A j \in 1..Len(data[i]) : data[i][j] = 0

\* for field in mol._topo_fields: ...
RECURSIVE MergeFields(_, _, _, _)
MergeFields(m, mo, ow, k) ==
    IF k > Len(TopoFields) THEN Ok(m)
    ELSE LET field == TopoFields[k]
             newfielddata == mo[field]
         IN  IF AllDefault(field, newfielddata) THEN MergeFields(m, mo, ow, k + 1)
             ELSE IF field \in Range(AtomFields) /\ Len(m[field]) # Len(newfielddata)
                  THEN Raise(m, "TopologyInconsistencyError")
             ELSE IF Overwrites(ow, field)
                  THEN MergeFields([m EXCEPT ![field] = newfielddata], mo, ow, k + 1)
             ELSE IF m[field] # newfielddata
                  THEN Raise(m, "TopologyInconsistencyError")
             ELSE MergeFields(m, mo, ow, k + 1)

\* The order that leaves the incoming atoms where they are.
NameOrderAsRead(selfname, molname) == [i \in 1..Len(selfname) |-> i - 1]

\* order = np.array([np.where(mol.name == nn)[0][0] for nn in self.name])
NameOrder(selfname, molname) ==
    [i \in 1..Len(selfname) |->
        (CHOOSE j \in 1..Len(molname) :
            molname[j] = selfname[i] /\ \A h \in 1..(j - 1) : molname[h] # selfname[i]) - 1]

\* The atom-name reconciliation of one incoming topology: the incoming
\* molecule (reordered when needed) and the exception raised, if any.
ReconcileNames(m, mo, ow) ==
    IF /\ Len(m.name) = numAtomsTopo(mo)
       /\ \E i \in 1..Len(mo.name) : mo.name[i] # ""
       /\ \E i \in 1..Len(m.name) : m.name[i] # ""
       /\ m.name # mo.name
    THEN IF Range(m.name) \ Range(mo.name) = {}
         THEN IF Cardinality(Range(m.name)) # Len(m.name)
              THEN IF OverwriteEqualsAll(ow) THEN Ok(mo) ELSE Raise(mo, "RuntimeError")
              ELSE reorderAtoms(mo, NameOrder(m.name, mo.name))
         ELSE Raise(mo, "TopologyInconsistencyError")
    ELSE Ok(mo)

\* One iteration of `for mol in newmols`: [m, mo, err], mo the incoming
\* molecule as the iteration leaves it.
MergeOneTopology(m, mo, ow) ==
    LET Finish(m2, mo1) ==
            [m |-> [m2 EXCEPT !.element = guessMissingElements(m2),
                              !.fileloc = mo1.fileloc],
             mo |-> mo1, err |-> "none"]
        Merged(rf, mo1) ==
            IF rf.err # "none" THEN [m |-> rf.m, mo |-> mo1, err |-> rf.err]
            ELSE IF Len(rf.m.bonds) # 0 /\ Len(rf.m.bondtype) = 0
                 THEN Finish([rf.m EXCEPT !.bondtype = [i \in 1..Len(rf.m.bonds) |-> "un"]],
                             mo1)
            ELSE Finish(rf.m, mo1)
        Reconciled(m1, rn) ==
            IF rn.err # "none" THEN [m |-> m1, mo |-> rn.m, err |-> rn.err]
            ELSE Merged(MergeFields(m1, rn.m, ow, 1), rn.m)
        Start(m1) == Reconciled(m1, ReconcileNames(m1, mo, ow))
    IN  IF numAtomsTopo(mo) = 0 THEN [m |-> m, mo |-> mo, err |-> "none"]
        ELSE Start(IF numAtomsTopo(m) = 0 THEN emptyTopo(m, numAtoms(mo)) ELSE m)

\* _mergeTopologies(newmols, overwrite): [m, mols, err]
RECURSIVE MergeTopologiesFrom(_, _, _, _)
MergeTopologiesFrom(m, mols, ow, i) ==
    LET Step(r) ==
            IF r.err # "none"
            THEN [m |-> r.m, mols |-> [mols EXCEPT ![i] = r.mo], err |-> r.err]
            ELSE MergeTopologiesFrom(r.m, [mols EXCEPT ![i] = r.mo], ow, i + 1)
    IN  IF i > Len(mols) THEN [m |-> m, mols |-> mols, err |-> "none"]
        ELSE Step(MergeOneTopology(m, mols[i], ow))

mergeTopologies(m, newmols, overwrite) ==
    MergeTopologiesFrom(m, newmols, NormalizeOverwrite(overwrite), 1)

----------------------------------------------------------------------------
(* Molecule._mergeTrajectories *)

\* One fileloc entry: (file, frame index).  trajinfo['fileloc'].append(
\* self.fileloc) stores the whole previous list as one entry: nested.
FileLoc(file, frame) == [file |-> file, frame |-> frame, nested |-> <<>>]

NestedFileLoc(fileloc) == [file |-> "", frame |-> 0, nested |-> fileloc]

RECURSIVE ConcatSeqs(_, _, _)
\* np.concatenate of the given field of every piece
ConcatSeqs(pieces, field, i) ==
    IF i > Len(pieces) THEN <<>>
    ELSE pieces[i][field] \o ConcatSeqs(pieces, field, i + 1)

RECURSIVE ConcatRow(_, _, _)
\* row r of np.concatenate(coords of every piece, axis=-1)
ConcatRow(pieces, r, i) ==
    IF i > Len(pieces) THEN <<>>
    ELSE pieces[i].coords.rows[r] \o ConcatRow(pieces, r, i + 1)

RECURSIVE SumFrames(_, _)
SumFrames(pieces, i) ==
    IF i > Len(pieces) THEN 0 ELSE pieces[i].coords.nf + SumFrames(pieces, i + 1)

RECURSIVE TrajPieces(_, _)
\* the newmols that carry a trajectory: mol._numAtomsTraj != 0
TrajPieces(mols, i) ==
    IF i > Len(mols) THEN <<>>
    ELSE IF numAtomsTraj(mols[i]) = 0 THEN TrajPieces(mols, i + 1)
    ELSE <<mols[i]>> \o TrajPieces(mols, i + 1)
\* A stride that starts at the n-th element.
EveryNthAfter(s, skip) ==
    [i \in 1..((Len(s) + skip - 1) \div skip) |-> s[Min(i * skip, Len(s))]]

\* arr[::skip]
EveryNth(s, skip) ==
    [i \in 1..((Len(s) + skip - 1) \div skip) |-> s[(i - 1) * skip + 1]]

\* The concatenation step: `if len(trajinfo): ...`
ConcatTrajectories(m, newmols, doAppend) ==
    LET own == doAppend /\ numAtomsTraj(m) # 0
        Concat(news, pieces, n) ==
            IF \E i \in 1..Len(pieces) : Len(pieces[i].coords.rows) # n
            THEN Raise(m, "ValueError")
            ELSE Ok([m EXCEPT
                    !.coords = [rows |-> [r \in 1..n |-> ConcatRow(pieces, r, 1)],
                                nf |-> SumFrames(pieces, 1)],
                    !.box = ConcatSeqs(pieces, "box", 1),
                    !.boxangles = ConcatSeqs(pieces, "boxangles", 1),
                    !.fileloc = IF own THEN <<NestedFileLoc(m.fileloc)>>
                                            \o ConcatSeqs(news, "fileloc", 1)
                                ELSE ConcatSeqs(news, "fileloc", 1),
                    !.step = ConcatSeqs(pieces, "step", 1),
                    !.time = ConcatSeqs(pieces, "time", 1)])
        Pieces(news, pieces) ==
            IF Len(pieces) = 0 THEN Ok(m)
            ELSE Concat(news, pieces, Len(pieces[1].coords.rows))
        News(news) == Pieces(news, IF own THEN <<m>> \o news ELSE news)
    IN  News(TrajPieces(newmols, 1))

\* skip is 0 for None
mergeTrajectories(m, newmols, skip, doAppend) ==
    LET Skip(m1) ==
            IF numAtomsTopo(m1) # 0 /\ numAtomsTraj(m1) = 0
            THEN Ok(emptyTraj(m1, numAtomsTopo(m1)))
            ELSE IF skip # 0
                 THEN Ok([m1 EXCEPT
                         !.coords = [rows |-> [r \in 1..Len(m1.coords.rows) |->
                                                  EveryNth(m1.coords.rows[r], skip)],
                                     nf |-> (m1.coords.nf + skip - 1) \div skip],
                         !.box = EveryNth(m1.box, skip),
                         !.boxangles = EveryNth(m1.boxangles, skip),
                         !.step = EveryNth(m1.step, skip),
                         !.time = EveryNth(m1.time, skip),
                         !.fileloc = EveryNth(m1.fileloc, skip)])
            ELSE Ok(m1)
        Concatenated(c) == IF c.err # "none" THEN c ELSE Skip(c.m)
    IN  Concatenated(ConcatTrajectories(m, newmols, doAppend))

----------------------------------------------------------------------------
(* Molecule._dropAltLoc *)

\* The alternate-location tags, in the order np.unique sorts them.
AltLocs == <<"A", "B">>

RECURSIVE DropAltLocFrom(_, _, _, _)
\* for a in otheraltlocs: self.remove(self.altloc == a)
DropAltLocFrom(m, others, strict, i) ==
    LET Removed(r) ==
            IF r.err # "none" THEN r ELSE DropAltLocFrom(r.m, others, strict, i + 1)
    IN  IF i > Len(AltLocs) THEN Ok(m)
        ELSE IF AltLocs[i] \notin others THEN DropAltLocFrom(m, others, strict, i + 1)
        ELSE Removed(remove(m, {j - 1 : j \in {h \in 1..Len(m.altloc) :
                                               m.altloc[h] = AltLocs[i]}}, strict))

dropAltLoc(m, keepaltloc, logger, strict) ==
    LET Drop(otheraltlocs) ==
            IF otheraltlocs # {} /\ keepaltloc # "all" /\ logger
            THEN DropAltLocFrom(m, otheraltlocs, strict, 1)
            ELSE Ok(m)
    IN  Drop({x \in Range(m.altloc) : x # "" /\ x # keepaltloc})

----------------------------------------------------------------------------
(* Molecule.read *)

\* read(filename, skip, append, overwrite, keepaltloc, _logger) with
\* frames=None, guess=None, guessNE=None; newmols is what the readers return
\* for the files, in order.
read(m, newmols, overwrite, skip, doAppend, keepaltloc, logger, strict) ==
    LET Trajectories(j) ==
            IF j.err # "none" THEN j ELSE dropAltLoc(j.m, keepaltloc, logger, strict)
        Topologies(t) ==
            IF t.err # "none" THEN Raise(t.m, t.err)
            ELSE Trajectories(mergeTrajectories(t.m, t.mols, skip, doAppend))
    IN  IF \E i \in 1..Len(newmols) :
               numAtoms(m) # 0 /\ numAtoms(newmols[i]) # numAtoms(m)
        THEN Raise(m, "ValueError")
        ELSE Topologies(mergeTopologies(m, newmols, overwrite))

----------------------------------------------------------------------------
(* UniqueAtomID *)

UniqueAtomIDFields ==
    {"name", "altloc", "resname", "chain", "resid", "insertion", "segid"}

\* arr[i] of a numpy array of n entries: a negative i counts from the end, and
\* an i outside -n..n-1 raises IndexError.
NpIndexFails(n, i) == i >= n \/ i < 0 - n

NpIndex(n, i) == IF i < 0 THEN i + n ELSE i

\* UniqueAtomID.fromMolecule(mol, idx=idx): getattr(mol, f)[atom][0] per field
fromMolecule(m, idx) ==
    IF \E f \in UniqueAtomIDFields : NpIndexFails(Len(m[f]), idx)
    THEN [id |-> [f \in UniqueAtomIDFields |-> ""], err |-> "IndexError"]
    ELSE [id |-> [f \in UniqueAtomIDFields |-> m[f][NpIndex(Len(m[f]), idx) + 1]],
          err |-> "none"]

\* An optional argument: None, or a value.
None == [given |-> FALSE]

Given(v) == [given |-> TRUE, val |-> v]

\* A fromMolecule that takes the first atom of whatever it is given.
AtomIDFromFirst(m, sel, idx) ==
    fromMolecule(m, IF sel.given /\ sel.val # {}
                    THEN CHOOSE i \in sel.val : \A j \in sel.val : i <= j
                    ELSE IF idx.given THEN idx.val ELSE 0)

\* UniqueAtomID.fromMolecule(mol, sel, idx).  sel is held as the set of atom
\* indices mol.atomselect(sel, indexes=True) returns, idx as an integer.
AtomIDFromMolecule(m, sel, idx) ==
    LET NoAtomID == [f \in UniqueAtomIDFields |-> ""]
    IN  IF sel.given = idx.given
        THEN [id |-> NoAtomID, err |-> "RuntimeError: either sel or idx"]
        ELSE IF sel.given /\ Cardinality(sel.val) > 1
        THEN [id |-> NoAtomID, err |-> "RuntimeError: more than one atom"]
        ELSE IF sel.given /\ Cardinality(sel.val) = 0
        THEN [id |-> NoAtomID, err |-> "RuntimeError: no atom"]
        ELSE fromMolecule(m, IF sel.given THEN CHOOSE i \in sel.val : TRUE ELSE idx.val)

\* UniqueAtomID.selectAtom(mol, ignore=ignore) with indexes=True; ignore is
\* held as the set of field names ensurelist(ignore) lists (None: no field).
\* The mask has numAtoms entries; a field of another length only combines
\* with it when numpy can broadcast it, that is when it has one entry.
selectAtomIgnore(uqid_, m, ignore) ==
    LET Compared == UniqueAtomIDFields \ ignore
        Pick(sel) ==
            IF Cardinality(sel) > 1
            THEN [idx |-> -1, err |-> "RuntimeError: no longer unique"]
            ELSE IF Cardinality(sel) = 0
                 THEN [idx |-> -1, err |-> "RuntimeError: no longer present"]
            ELSE [idx |-> CHOOSE i \in sel : TRUE, err |-> "none"]
    IN  IF \E f \in Compared : Len(m[f]) \notin {numAtoms(m), 1}
        THEN [idx |-> -1, err |-> "ValueError"]
        ELSE Pick({i \in 0..(numAtoms(m) - 1) :
                     \A f \in Compared :
                        m[f][IF Len(m[f]) = 1 THEN 1 ELSE i + 1] = uqid_[f]})

\* UniqueAtomID.selectAtom(mol)
selectAtom(uqid_, m) == selectAtomIgnore(uqid_, m, {})

\* UniqueAtomID.__eq__
AtomIDEq(a, b) == \A f \in UniqueAtomIDFields : a[f] = b[f]

----------------------------------------------------------------------------
(* UniqueResidueID *)

UniqueResidueIDFields == {"resname", "chain", "resid", "insertion", "segid"}

\* UniqueResidueID.fromMolecule(mol, sel, idx).  sel is held as the set of
\* atom indices the selection returns, idx as the set of the indices passed
\* (one index, or a list of them).  np.unique(getattr(mol, f)[atoms]) must
\* hold one value for every field.
ResidueIDFromMolecule(m, sel, idx) ==
    LET NoResidueID == [f \in UniqueResidueIDFields |-> ""]
        atoms == IF sel.given THEN sel.val ELSE idx.val
        Vals(f) == {m[f][i + 1] : i \in atoms}
    IN  IF sel.given = idx.given
        THEN [id |-> NoResidueID, err |-> "RuntimeError: only one of sel or idx"]
        ELSE IF sel.given /\ Cardinality(sel.val) = 0
        THEN [id |-> NoResidueID, err |-> "RuntimeError: no residue"]
        ELSE IF \E f \in UniqueResidueIDFields : \E i \in atoms : i >= Len(m[f])
        THEN [id |-> NoResidueID, err |-> "IndexError"]
        ELSE IF \E f \in UniqueResidueIDFields : Cardinality(Vals(f)) # 1
        THEN [id |-> NoResidueID, err |-> "RuntimeError: more than one value"]
        ELSE [id |-> [f \in UniqueResidueIDFields |-> CHOOSE v \in Vals(f) : TRUE],
              err |-> "none"]

\* A selectAtoms that resolves a residue the way selectAtom resolves an atom:
\* to one row, or not at all.
selectAtomsUnique(uqid_, m, ignore) ==
    LET s == selectAtomIgnore(uqid_, m, ignore \cup {"name", "altloc"})
    IN  [idx |-> IF s.err = "none" THEN <<s.idx>> ELSE <<>>, err |-> s.err]

\* UniqueResidueID.selectAtoms(mol, ignore=ignore) with indexes=True:
\* np.where(sel)[0], the matching indices in ascending order.
selectAtoms(uqid_, m, ignore) ==
    LET Compared == UniqueResidueIDFields \ ignore
        sel == {i \in 0..(numAtoms(m) - 1) :
                  \A f \in Compared :
                     m[f][IF Len(m[f]) = 1 THEN 1 ELSE i + 1] = uqid_[f]}
    IN  IF \E f \in Compared : Len(m[f]) \notin {numAtoms(m), 1}
        THEN [idx |-> <<>>, err |-> "ValueError"]
        ELSE IF Cardinality(sel) = 0
        THEN [idx |-> <<>>, err |-> "RuntimeError: no longer present"]
        ELSE [idx |-> SortedSeq(sel), err |-> "none"]

\* A comparison of residue snapshots by residue name alone.
ResidueIDEqByName(a, b) == a.resname = b.resname

\* UniqueResidueID.__eq__
ResidueIDEq(a, b) == \A f \in UniqueResidueIDFields : a[f] = b[f]

----------------------------------------------------------------------------
(* What the file readers return (moleculekit.readers is outside this model):*)
(* one Molecule per file, holding a topology, a block of frames, or both.   *)

\* A topology of Len(names) atoms read from `file`; bondtype is filled by the
\* reader, one label per bond.
Topology(file, names, altloc, resname, resid, element, bonds, bondtype, angles, dihedrals, impropers) ==
    [NewMolecule EXCEPT
        !.record = [i \in 1..Len(names) |-> "ATOM"],
        !.serial = [i \in 1..Len(names) |-> i],
        !.name = names,
        !.altloc = altloc,
        !.resname = [i \in 1..Len(names) |-> resname],
        !.chain = [i \in 1..Len(names) |-> ""],
        !.resid = resid,
        !.insertion = [i \in 1..Len(names) |-> ""],
        !.occupancy = [i \in 1..Len(names) |-> 0],
        !.beta = [i \in 1..Len(names) |-> 0],
        !.segid = [i \in 1..Len(names) |-> ""],
        !.element = element,
        !.charge = [i \in 1..Len(names) |-> 0],
        !.masses = [i \in 1..Len(names) |-> 0],
        !.atomtype = [i \in 1..Len(names) |-> ""],
        !.bonds = bonds, !.bondtype = bondtype, !.angles = angles,
        !.dihedrals = dihedrals, !.impropers = impropers,
        !.fileloc = <<FileLoc(file, 0)>>]

\* m with nf frames of n atoms read from `file`; the token of atom i in frame
\* f is base + 10 * f + i.
WithFrames(m, file, n, nf, base) ==
    [m EXCEPT
        !.coords = [rows |-> [i \in 1..n |-> [f \in 1..nf |-> base + 10 * f + i]],
                    nf |-> nf],
        !.box = [f \in 1..nf |-> 5],
        !.boxangles = [f \in 1..nf |-> 90],
        !.step = [f \in 1..nf |-> f],
        !.time = [f \in 1..nf |-> 100 * f],
        !.fileloc = [f \in 1..nf |-> FileLoc(file, f - 1)]]

Blank(n) == [i \in 1..n |-> ""]

Files ==
    {"psf4", "pdb4", "pdb4p", "xtc4", "mol2", "psf2", "psf2p", "psf2x", "pdb2r",
     "coor2", "alt2"}

Reader(file) ==
    CASE file = "psf4" ->
            Topology(file, <<"N", "CA", "CB", "N">>, Blank(4), "ALA", <<1, 1, 1, 2>>,
                     Blank(4), <<<<0, 1>>, <<1, 2>>, <<1, 3>>>>, <<"1", "1", "2">>,
                     <<<<0, 1, 2>>, <<2, 1, 3>>>>, <<<<0, 1, 2, 3>>>>,
                     <<<<1, 0, 2, 3>>>>)
      [] file = "pdb4" ->
            WithFrames(Topology(file, <<"N", "CA", "CB", "N">>, Blank(4), "ALA",
                                <<1, 1, 1, 2>>, <<"N", "C", "C", "N">>,
                                <<>>, <<>>, <<>>, <<>>, <<>>),
                       file, 4, 1, 0)
      [] file = "pdb4p" ->
            WithFrames(Topology(file, <<"CA", "N", "CB", "N">>, Blank(4), "ALA",
                                <<1, 1, 1, 2>>, <<"C", "N", "C", "N">>,
                                <<>>, <<>>, <<>>, <<>>, <<>>),
                       file, 4, 1, 400)
      [] file = "xtc4" -> WithFrames(NewMolecule, file, 4, 2, 100)
      [] file = "mol2" ->
            WithFrames(Topology(file, <<"C1", "O1">>, Blank(2), "LIG", <<9, 9>>,
                                <<"C", "O">>, <<<<0, 1>>>>, <<"ar">>, <<>>, <<>>, <<>>),
                       file, 2, 1, 200)
      [] file = "psf2" ->
            Topology(file, <<"C1", "O1">>, Blank(2), "LIG", <<9, 9>>, Blank(2),
                     <<<<0, 1>>>>, <<"1">>, <<>>, <<>>, <<>>)
      [] file = "psf2p" ->
            Topology(file, <<"O1", "C1">>, Blank(2), "LIG", <<9, 9>>, <<"O", "C">>,
                     <<<<0, 1>>>>, <<"1">>, <<>>, <<>>, <<>>)
      [] file = "psf2x" ->
            Topology(file, <<"C1", "N1">>, Blank(2), "LIG", <<9, 9>>, Blank(2),
                     <<<<0, 1>>>>, <<"1">>, <<>>, <<>>, <<>>)
      [] file = "pdb2r" ->
            WithFrames(Topology(file, <<"C1", "O1">>, Blank(2), "LIG", <<8, 8>>,
                                <<"C", "O">>, <<>>, <<>>, <<>>, <<>>, <<>>),
                       file, 2, 1, 500)
      [] file = "coor2" -> WithFrames(NewMolecule, file, 2, 1, 300)
      [] file = "alt2" ->
            WithFrames(Topology(file, <<"C1", "C1">>, <<"A", "B">>, "LIG", <<9, 9>>,
                                <<"C", "C">>, <<>>, <<>>, <<>>, <<>>, <<>>),
                       file, 2, 1, 600)

----------------------------------------------------------------------------
(* The calls the model makes *)

\* The arguments of one read call.
ReadCall(files, overwrite, skip, doAppend, keepaltloc) ==
    [files |-> files, overwrite |-> overwrite, skip |-> skip, doAppend |-> doAppend,
     keepaltloc |-> keepaltloc]

\* read(files, ...) on container m
DoRead(m, c, strict) ==
    read(m, [i \in 1..Len(c.files) |-> Reader(c.files[i])], c.overwrite, c.skip,
         c.doAppend, c.keepaltloc, TRUE, strict)

\* Molecule(filename): a new Molecule that reads the files with the default
\* arguments (overwrite='all', keepaltloc='A').
Molecule(files) ==
    DoRead(NewMolecule, ReadCall(files, OverwriteStr("all"), 0, FALSE, "A"), TRUE).m

\* The molecules the edit calls start from.
Constructed ==
    {Molecule(files) : files \in {<<>>, <<"pdb4">>, <<"psf4">>, <<"psf4", "pdb4">>,
                                  <<"psf4", "xtc4">>, <<"mol2">>, <<"psf2">>,
                                  <<"coor2">>}}

\* The molecules passed to insert and append.
Inserted == {Molecule(<<file>>) : file \in {"mol2", "psf2", "coor2"}}

\* The file lists passed to read: every single file, and the pairs below.
FileLists ==
    {<<file>> : file \in Files}
        \cup {<<"psf4", "pdb4">>, <<"psf4", "xtc4">>, <<"psf2", "mol2">>,
              <<"psf2", "psf2x">>, <<"psf2", "psf2p">>, <<"psf2", "xtc4">>,
              <<"psf2", "pdb4">>, <<"xtc4", "xtc4">>}

OverwriteArgs == {OverwriteStr("all"), OverwriteNone, OverwriteList(<<"resid">>)}

ReadCalls ==
    {ReadCall(files, overwrite, 0, FALSE, "A") :
        files \in FileLists, overwrite \in OverwriteArgs}
        \cup {ReadCall(files, OverwriteStr("all"), o[1], o[2], o[3]) :
                files \in FileLists,
                o \in {<<2, FALSE, "A">>, <<0, TRUE, "A">>, <<2, TRUE, "A">>,
                       <<0, FALSE, "all">>}}

\* The numpy releases that can tell themselves apart on m: np.delete differs
\* only when an index lies beyond the end of an array.
NumpyStrict(m) ==
    IF \/ \E k \in 1..Len(AtomAndCoordFields) :
              FLen(m, AtomAndCoordFields[k]) < numAtoms(m)
       \/ Len(m.bondtype) < Len(m.bonds)
    THEN BOOLEAN ELSE {TRUE}

HasAltLoc(m) == \E i \in 1..Len(m.altloc) : m.altloc[i] # ""

\* read reaches np.delete only through _dropAltLoc.
ReadStrict(m, c) ==
    IF HasAltLoc(m) \/ \E i \in 1..Len(c.files) : HasAltLoc(Reader(c.files[i]))
    THEN BOOLEAN ELSE {TRUE}

Atoms(m) == 0..(numAtoms(m) - 1)

\* The permutations of 0..n-1 as sequences
Orders(n) ==
    {p \in [1..n -> 0..(n - 1)] : \A i, j \in 1..n : i # j => p[i] # p[j]}

\* The atom sets a residue selection resolves to: the atoms of one resid.
Residues(m) ==
    {{i \in Atoms(m) : m.resid[i + 1] = r} : r \in Range(m.resid)}

\* The data-model invariants of a container: every per-atom field and coords
\* have numAtoms rows, every connectivity endpoint indexes an atom.
Consistent(m) ==
    /\ \A k \in 1..Len(AtomAndCoordFields) : FLen(m, AtomAndCoordFields[k]) = numAtoms(m)
    /\ \A k \in 1..Len(EdgeFields) :
          \A i \in 1..Len(m[EdgeFields[k]]) :
             \A e \in Range(m[EdgeFields[k]][i]) : e >= 0 /\ e < numAtoms(m)

----------------------------------------------------------------------------
(* The state machine of the edit calls: a constructed container, the last   *)
(* call made on it (clean: the container started consistent and no call has *)
(* raised), the number of calls so far, the identity snapshot the caller    *)
(* holds and the second Molecule the caller holds (none in this machine)    *)

\* No UniqueAtomID or UniqueResidueID has been built.
NoID == [kind |-> "none"]

\* The caller holds no second Molecule.
NoPeer == [kind |-> "none"]

Did(op, err, clean) == [op |-> op, err |-> err, clean |-> clean]

Init ==
    /\ mol \in Constructed
    /\ last = Did("init", "none", Consistent(mol))
    /\ calls = 0
    /\ uqid = NoID
    /\ peer = NoPeer

\* The bookkeeping of one call that returned r.
Called(op, r, bound) ==
    /\ calls < bound
    /\ mol' = r.m
    /\ last' = Did(op, r.err, last.clean /\ r.err = "none")
    /\ calls' = calls + 1
    /\ UNCHANGED <<uqid, peer>>

Insert ==
    \E mo \in Inserted : \E index \in 0..(numAtoms(mol) + 1) :
        /\ numAtoms(mol) + numAtoms(mo) <= MaxAtoms
        /\ Called("insert", insert(mol, mo, index), MaxCalls)

AppendMol ==
    \E mo \in Inserted :
        /\ numAtoms(mol) + numAtoms(mo) <= MaxAtoms
        /\ Called("append", append(mol, mo), MaxCalls)

Remove ==
    \E sel \in SUBSET Atoms(mol) : \E strict \in NumpyStrict(mol) :
        Called("remove", remove(mol, sel, strict), MaxCalls)

Filter ==
    \E s \in SUBSET Atoms(mol) : \E strict \in NumpyStrict(mol) :
        Called("filter", filter(mol, s, strict), MaxCalls)

ReorderAtoms ==
    \E order \in Orders(numAtoms(mol)) :
        /\ numAtoms(mol) > 0
        /\ Called("reorderAtoms", reorderAtoms(mol, order), MaxCalls)

DeleteBonds ==
    \E sel \in SUBSET Atoms(mol) : \E inter \in BOOLEAN : \E strict \in NumpyStrict(mol) :
        Called("deleteBonds", deleteBonds(mol, sel, inter, strict), MaxCalls)

MutateResidue ==
    \E s \in Residues(mol) : \E strict \in NumpyStrict(mol) :
        Called("mutateResidue", mutateResidue(mol, s, "GLY", strict), MaxCalls)

Next ==
    \/ Insert
    \/ AppendMol
    \/ Remove
    \/ Filter
    \/ ReorderAtoms
    \/ DeleteBonds
    \/ MutateResidue

Spec == Init /\ [][Next]_vars

----------------------------------------------------------------------------
(* The state machine of the read calls on a new Molecule *)

InitRead ==
    /\ mol = NewMolecule
    /\ last = Did("init", "none", TRUE)
    /\ calls = 0
    /\ uqid = NoID
    /\ peer = NoPeer

Read ==
    \E c \in ReadCalls : \E strict \in ReadStrict(mol, c) :
        LET r == DoRead(mol, c, strict)
        IN  /\ numFrames(r.m) <= MaxFrames
            /\ Called("read", r, MaxReads)

NextRead == Read

SpecRead == InitRead /\ [][NextRead]_vars

----------------------------------------------------------------------------
(* Molecule.frame (setter), Molecule.fstep, dropFrames, appendFrames *)

\* frame.setter
setFrame(m, value) ==
    IF value < 0 \/ (numFrames(m) # 0 /\ value >= numFrames(m))
    THEN Raise(m, "NameError")
    ELSE Ok([m EXCEPT !.frame = value])

\* dropFrames(keep=idx) when keeping and dropFrames(drop=idx) when not; idx
\* is a sequence of frame indexes.  np.setdiff1d gives the frames that are
\* not dropped, sorted.
DropArg(keeping, idx) == [keeping |-> keeping, idx |-> idx, both |-> FALSE]

\* dropFrames(keep=idx, drop=drop): both arguments passed.
DropBoth(idx, drop) == [keeping |-> TRUE, idx |-> idx, both |-> TRUE]

KeepList(m, arg) ==
    IF arg.keeping THEN arg.idx
    ELSE SortedSeq({f \in 0..(numFrames(m) - 1) : f \notin Range(arg.idx)})

\* s[keep] for a per-frame sequence
TakeFrames(s, keep) == [i \in 1..Len(keep) |-> s[keep[i] + 1]]

dropFrames(m, arg) ==
    LET Kept(keep) ==
            IF \E i \in 1..Len(keep) : keep[i] >= numFrames(m)
            THEN Raise(m, "IndexError")
            ELSE setFrame(
                   [m EXCEPT
                       !.coords = [rows |-> [r \in 1..Len(m.coords.rows) |->
                                                TakeFrames(m.coords.rows[r], keep)],
                                   nf |-> Len(keep)],
                       !.box = IF Len(m.box) = numFrames(m)
                               THEN TakeFrames(m.box, keep) ELSE m.box,
                       !.boxangles = IF Len(m.boxangles) = numFrames(m)
                                     THEN TakeFrames(m.boxangles, keep)
                                     ELSE m.boxangles,
                       !.step = IF Len(m.step) = numFrames(m)
                                THEN TakeFrames(m.step, keep) ELSE m.step,
                       !.time = IF Len(m.time) = numFrames(m)
                                THEN TakeFrames(m.time, keep) ELSE m.time,
                       !.fileloc = IF Len(m.fileloc) = numFrames(m)
                                   THEN TakeFrames(m.fileloc, keep) ELSE m.fileloc],
                   0)
    IN  IF arg.both THEN Raise(m, "RuntimeError") ELSE Kept(KeepList(m, arg))

\* The result of the fstep property: None, or the time step.
NoFstep == [none |-> TRUE, step |-> 0]

\* The file names in the order np.unique sorts them.
SortedFiles ==
    <<"alt2", "coor2", "mol2", "pdb2r", "pdb4", "pdb4p", "psf2", "psf2p", "psf2x",
      "psf4", "xtc4">>

\* np.unique(np.diff(self.time[uqidx == f])) for one file
TimeSteps(m, file) ==
    LET Diffs(t) == {t[i + 1] - t[i] : i \in 1..(Len(t) - 1)}
    IN  Diffs(Take(m.time, SortedSeq({i \in 1..Len(m.fileloc) :
                                         m.fileloc[i].file = file})))

\* fstep: one time step per file, that of the first file.  The mask
\* uqidx == f has one entry per fileloc record, so a fileloc that is out of
\* step with time raises IndexError.
fstep(m) ==
    LET files == {m.fileloc[i].file : i \in 1..Len(m.fileloc)}
        First(f) == CHOOSE d \in TimeSteps(m, f) : TRUE
        Steps(fs) ==
            IF \E f \in fs : Cardinality(TimeSteps(m, f)) # 1
            THEN [val |-> NoFstep, err |-> "none"]
            ELSE [val |-> [none |-> FALSE,
                           step |-> First(SortedFiles[CHOOSE k \in 1..Len(SortedFiles) :
                                        /\ SortedFiles[k] \in fs
                                        /\ \A j \in 1..(k - 1) : SortedFiles[j] \notin fs])],
                  err |-> "none"]
    IN  IF Len(m.time) <= 1 THEN [val |-> NoFstep, err |-> "none"]
        ELSE IF Len(m.fileloc) # Len(m.time) THEN [val |-> NoFstep, err |-> "IndexError"]
        ELSE Steps(files)

\* appendFrames(mol)
appendFrames(m, mo) ==
    LET Concatenate(a, b) ==
            IF a.err # "none" THEN Raise(m, a.err)
            ELSE IF b.err # "none" THEN Raise(m, b.err)
            ELSE IF a.val # b.val THEN Raise(m, "RuntimeError")
            ELSE IF Len(m.coords.rows) # Len(mo.coords.rows)
            THEN Raise(m, "ValueError")
            ELSE Ok([m EXCEPT
                    !.coords = [rows |-> [r \in 1..Len(m.coords.rows) |->
                                             m.coords.rows[r] \o mo.coords.rows[r]],
                                nf |-> m.coords.nf + mo.coords.nf],
                    !.box = m.box \o mo.box,
                    !.boxangles = m.boxangles \o mo.boxangles,
                    !.fileloc = m.fileloc \o mo.fileloc,
                    !.step = m.step \o mo.step,
                    !.time = m.time \o mo.time])
    IN  Concatenate(fstep(m), fstep(mo))

----------------------------------------------------------------------------
(* The state machine of the calls that change the frames of a Molecule *)

FrameContainers ==
    {Molecule(files) : files \in {<<>>, <<"pdb4">>, <<"psf4">>, <<"xtc4">>,
                                  <<"psf4", "xtc4">>, <<"coor2">>}}

\* The molecules passed to appendFrames.
Appended == {Molecule(<<file>>) : file \in {"xtc4", "pdb4", "coor2"}}

FrameReadCalls ==
    {ReadCall(files, OverwriteStr("all"), skip, doAppend, "A") :
        files \in {<<"pdb4">>, <<"xtc4">>, <<"xtc4", "xtc4">>, <<"coor2">>, <<"psf4">>},
        skip \in {0, 2}, doAppend \in BOOLEAN}

\* The values assigned to frame.
FrameValues == (0 - 1)..MaxFrames

\* The frame lists passed to dropFrames: the sorted lists of frame indexes.
FrameLists == {SortedSeq(S) : S \in SUBSET (0..MaxFrames)}

InitFrames ==
    /\ mol \in FrameContainers
    /\ last = Did("init", "none", Consistent(mol))
    /\ calls = 0
    /\ uqid = NoID
    /\ peer = NoPeer

SetFrame ==
    \E value \in FrameValues : Called("frame", setFrame(mol, value), MaxFrameCalls)

DropFrames ==
    \E keeping \in BOOLEAN : \E idx \in FrameLists :
        \/ Called("dropFrames", dropFrames(mol, DropArg(keeping, idx)), MaxFrameCalls)
        \/ /\ keeping
           /\ \E drop \in FrameLists :
                 Called("dropFrames", dropFrames(mol, DropBoth(idx, drop)), MaxFrameCalls)

AppendFrames ==
    \E mo \in Appended :
        LET r == appendFrames(mol, mo)
        IN  /\ numFrames(r.m) <= MaxFrames
            /\ Called("appendFrames", r, MaxFrameCalls)

ReadFrames ==
    \E c \in FrameReadCalls :
        LET r == DoRead(mol, c, TRUE)
        IN  /\ numFrames(r.m) <= MaxFrames
            /\ Called("read", r, MaxFrameCalls)

NextFrames ==
    \/ SetFrame
    \/ DropFrames
    \/ AppendFrames
    \/ ReadFrames

SpecFrames == InitFrames /\ [][NextFrames]_vars

----------------------------------------------------------------------------
(* calculateUniqueBonds *)

\* np.sort(bonds, axis=1): each row with its smaller endpoint first.
SortedBond(bb) == <<Min(bb[1], bb[2]), Max(bb[1], bb[2])>>

\* set(tuple(bb + [bt]) ...) with types, set(tuple(bb) ...) without
BondTuples(bonds, bondtype, typed) ==
    {IF typed THEN SortedBond(bonds[i]) \o <<bondtype[i]>> ELSE SortedBond(bonds[i]) :
        i \in 1..Len(bonds)}

\* The rows of the set in an order np.argsort(bonds[:, 0]) can leave them in:
\* the set is listed in no particular order and the sort compares the first
\* endpoint only.
SortedByFirst(tuples) ==
    {s \in [1..Cardinality(tuples) -> tuples] :
        /\ \A i, j \in DOMAIN s : i # j => s[i] # s[j]
        /\ \A i, j \in DOMAIN s : i < j => s[i][1] <= s[j][1]}

\* calculateUniqueBonds(bonds, bondtype): the results the call can give.
\* bondtype None and an empty bondtype take the same branch and give None,
\* held here as the empty sequence.  An empty set of rows becomes a
\* one-dimensional array, and bonds[:, 0] raises IndexError on it.
calculateUniqueBonds(bonds, bondtype) ==
    LET typed == Len(bondtype) > 0
        Result(rows) ==
            [bonds |-> [i \in DOMAIN rows |-> <<rows[i][1], rows[i][2]>>],
             bondtype |-> IF typed THEN [i \in DOMAIN rows |-> rows[i][3]] ELSE <<>>,
             err |-> "none"]
    IN  IF typed /\ Len(bondtype) # Len(bonds)
        THEN {[bonds |-> bonds, bondtype |-> bondtype, err |-> "AssertionError"]}
        ELSE IF Len(bonds) = 0
        THEN {[bonds |-> bonds, bondtype |-> bondtype, err |-> "IndexError"]}
        ELSE {Result(rows) : rows \in SortedByFirst(BondTuples(bonds, bondtype, typed))}

----------------------------------------------------------------------------
(* The state machine of calculateUniqueBonds: a Molecule with some bonds,   *)
(* and calls of mol.bonds, mol.bondtype = calculateUniqueBonds(mol.bonds,   *)
(* mol.bondtype)                                                            *)

\* The bonds drawn: between two different atoms of 0..MaxBondAtoms, in
\* either direction.
BondRows ==
    {<<a, b>> : a, b \in 0..MaxBondAtoms} \ {<<a, a>> : a \in 0..MaxBondAtoms}

BondTypes == {"1", "2"}

BondLists == UNION {[1..n -> BondRows] : n \in 0..MaxBonds}

\* The bondtype arguments for n bonds: one label per bond, or none at all.
BondTypeLists(n) == [1..n -> BondTypes] \cup {<<>>}

InitBonds ==
    /\ \E bonds \in BondLists : \E bondtype \in BondTypeLists(Len(bonds)) :
          mol = [NewMolecule EXCEPT !.bonds = bonds, !.bondtype = bondtype]
    /\ last = Did("init", "none", TRUE)
    /\ calls = 0
    /\ uqid = NoID
    /\ peer = NoPeer

CalculateUniqueBonds ==
    \E out \in calculateUniqueBonds(mol.bonds, mol.bondtype) :
        Called("calculateUniqueBonds",
               [m |-> [mol EXCEPT !.bonds = out.bonds, !.bondtype = out.bondtype],
                err |-> out.err],
               MaxBondCalls)

NextBonds == CalculateUniqueBonds

SpecBonds == InitBonds /\ [][NextBonds]_vars

----------------------------------------------------------------------------
(* Molecule.rotateBy, Molecule.setDihedral *)

\* The coordinate of an atom after a rotation by the matrix M: turned is the
\* angle the rotation turns by, held as 0 when M is the identity.
Rotated(token, turned) == token + 1000 * turned

\* rotateBy(M, center, sel): get('coords', sel) and set('coords', ..., sel)
\* read and write the rows of sel in the active frame.
rotateBy(m, turned, sel) ==
    [m EXCEPT !.coords.rows =
        [i \in 1..Len(m.coords.rows) |->
            IF (i - 1) \in sel
            THEN [m.coords.rows[i] EXCEPT ![m.frame + 1] = Rotated(@, turned)]
            ELSE m.coords.rows[i]]]

\* conn after the loop over bonds: conn[b[0], b[1]] and conn[b[1], b[0]]
Connections(bonds) ==
    {<<bonds[k][1], bonds[k][2]>> : k \in 1..Len(bonds)}
        \cup {<<bonds[k][2], bonds[k][1]>> : k \in 1..Len(bonds)}

\* A conn that keeps the bond across the dihedral.
ClearNothing(conn, a, b) == conn

\* conn[[a, b]] = 0: the rows a and b of conn are cleared.
ClearRows(conn, a, b) == {c \in conn : c[1] \notin {a, b}}

\* The nodes one step from S in the undirected graph of conn: along
\* conn[i, j] or conn[j, i].
Step(conn, S) ==
    S \cup {c[2] : c \in {d \in conn : d[1] \in S}}
      \cup {c[1] : c \in {d \in conn : d[2] \in S}}

RECURSIVE Reached(_, _, _)
Reached(conn, S, k) == IF k = 0 THEN S ELSE Reached(conn, Step(conn, S), k - 1)

\* np.unique(sp.breadth_first_tree(conn, start, directed=False).indices): the
\* nodes of the tree that have a predecessor, that is every node reached from
\* start but start itself.
TreeIndices(conn, start, n) == Reached(conn, {start}, n) \ {start}

\* setDihedral(atom_quad, radians, bonds).  bonds is the argument, or None;
\* with None the bonds are those of _getBonds(): self.bonds followed by the
\* guessed bonds, which `guessed` holds.  turned is radians minus the angle
\* the four atoms have, 0 when they already have it.
setDihedral(m, atom_quad, turned, bonds, guessed) ==
    LET natoms == numAtoms(m)
        allbonds == IF bonds.given THEN bonds.val ELSE m.bonds \o guessed
        cleared == ClearRows(Connections(allbonds), atom_quad[2], atom_quad[3])
        left == TreeIndices(cleared, atom_quad[2], natoms)
        right == TreeIndices(cleared, atom_quad[3], natoms)
    IN  IF ~bonds.given /\ FrameFails(m)
        THEN Raise(m, "IndexError")
        ELSE IF \E k \in 1..Len(allbonds) : \E e \in Range(allbonds[k]) : e >= natoms
        THEN Raise(m, "IndexError")
        ELSE IF atom_quad[2] >= natoms \/ atom_quad[3] >= natoms
        THEN Raise(m, "IndexError")
        ELSE IF atom_quad[3] \in left \/ atom_quad[2] \in right
        THEN Raise(m, "RuntimeError: Loop detected")
        ELSE IF FrameFails(m) \/ \E k \in 1..4 : atom_quad[k] >= Len(m.coords.rows)
        THEN Raise(m, "IndexError")
        ELSE Ok(rotateBy(m, turned, right))

----------------------------------------------------------------------------
(* The state machine of setDihedral: a container with coordinates, the      *)
(* frame pointer set by the caller, and calls of setDihedral                *)

\* The containers: four atoms in two frames, four atoms in one frame, two
\* atoms in one frame.
DihedralContainers ==
    {Molecule(files) : files \in {<<"psf4", "xtc4">>, <<"pdb4">>, <<"mol2">>}}

\* The atom_quad arguments: four different atoms.
AtomQuads ==
    {q \in [1..4 -> 0..(MaxDihedralAtoms - 1)] : \A i, j \in 1..4 : i # j => q[i] # q[j]}

\* The bonds passed or guessed: any set of bonds between the atoms, each
\* listed once with its lower atom first.
DihedralBonds ==
    {SortedSeq2(B) : B \in SUBSET {<<a, b>> \in (0..(MaxDihedralAtoms - 1)) \X (0..(MaxDihedralAtoms - 1)) : a < b}}

InitDihedral ==
    /\ mol \in DihedralContainers
    /\ last = Did("init", "none", Consistent(mol))
    /\ calls = 0
    /\ uqid = NoID
    /\ peer = NoPeer

SetDihedral ==
    \E atom_quad \in AtomQuads : \E turned \in 0..1 : \E rows \in DihedralBonds :
        \E passed \in BOOLEAN :
            Called("setDihedral",
                   setDihedral(mol, atom_quad, turned,
                               IF passed THEN Given(rows) ELSE None, rows),
                   MaxDihedralCalls)

SetFrameDihedral ==
    \E value \in 0..(MaxFrames - 1) :
        Called("frame", setFrame(mol, value), MaxDihedralCalls)

NextDihedral ==
    \/ SetDihedral
    \/ SetFrameDihedral

SpecDihedral == InitDihedral /\ [][NextDihedral]_vars

----------------------------------------------------------------------------
(* Molecule.copy, Molecule.set, Molecule.moveBy, Molecule.renumberResidues, *)
(* and the arrays a container has in common with a Molecule inserted into it*)

\* copy(): deepcopy(self), a Molecule with arrays of its own.
copy(m) == m

\* The fields of the container that, after insert(mol, index) has returned,
\* are the very arrays of mol: insertappend returns data2 itself when data1
\* is empty, and self.bondtype = mol.bondtype when the container has no bond
\* and mol has some.
InsertShares(m, mo) ==
    {f \in Range(AtomAndCoordFields) \ {"serial"} : FSizeZero(m, f) /\ ~FSizeZero(mo, f)}
        \cup (IF Len(m.bonds) = 0 /\ Len(mo.bonds) > 0 THEN {"bondtype"} ELSE {})

\* The fields that are still the same arrays after a further insert of mo:
\* insertappend returns data1 itself only when data2 is empty, and bondtype
\* is assigned only when mo has bonds.
StillShared(shared, mo) ==
    {f \in shared :
        IF f = "bondtype" THEN Len(mo.bonds) = 0
        ELSE FSizeZero(mo, f) /\ numAtoms(mo) = 0}

\* set(field, value, sel): self.__dict__[field][s] = value, for coords
\* self.coords[s, :, self.frame] = value.  sel is held as the set of atoms it
\* selects.
set(m, field, value, sel) ==
    IF field \notin Range(AtomAndCoordFields) THEN Raise(m, "NameError")
    ELSE IF FrameFails(m) /\ (field = "coords" \/ sel # Atoms(m))
    THEN Raise(m, "IndexError")
    ELSE IF \E i \in sel : i >= FLen(m, field) THEN Raise(m, "IndexError")
    ELSE IF field = "coords"
    THEN Ok([m EXCEPT !.coords.rows =
                [i \in 1..Len(m.coords.rows) |->
                    IF (i - 1) \in sel
                    THEN [m.coords.rows[i] EXCEPT ![m.frame + 1] = value]
                    ELSE m.coords.rows[i]]])
    ELSE Ok([m EXCEPT ![field] =
                [i \in 1..Len(m[field]) |-> IF (i - 1) \in sel THEN value ELSE m[field][i]]])

\* moveBy(vector, sel): self.coords[s, :, self.frame] += vector; the moved
\* coordinate of an atom is its token plus `vector`.
moveBy(m, vector, sel) ==
    IF FrameFails(m) \/ \E i \in sel : i >= Len(m.coords.rows)
    THEN Raise(m, "IndexError")
    ELSE Ok([m EXCEPT !.coords.rows =
                [i \in 1..Len(m.coords.rows) |->
                    IF (i - 1) \in sel
                    THEN [m.coords.rows[i] EXCEPT ![m.frame + 1] = @ + vector]
                    ELSE m.coords.rows[i]]])

\* sequenceID((resid, insertion, chain, segid)): a number per atom that starts
\* at 0 and goes up by one where any of the fields differs from the atom
\* before.
RECURSIVE sequenceID(_, _)
sequenceID(m, i) ==
    IF i = 1 THEN 0
    ELSE sequenceID(m, i - 1)
            + (IF \E f \in {"resid", "insertion", "chain", "segid"} : m[f][i] # m[f][i - 1]
               THEN 1 ELSE 0)

\* renumberResidues(): self.resid[:] = sequenceID(...); self.insertion[:] = ''
renumberResidues(m) ==
    IF \E f \in {"insertion", "chain", "segid"} : Len(m[f]) # Len(m.resid)
    THEN Raise(m, "ValueError")
    ELSE Ok([m EXCEPT !.resid = [i \in 1..Len(m.resid) |-> sequenceID(m, i)],
                      !.insertion = [i \in 1..Len(m.insertion) |-> ""]])

\* What a write into the arrays of `writer` leaves in a Molecule `reader`
\* that has the fields `shared` in common with it.
SeenThrough(reader, writer, shared) ==
    [f \in DOMAIN reader |-> IF f \in shared THEN writer[f] ELSE reader[f]]

----------------------------------------------------------------------------
(* The state machine of two Molecules: the container and a second Molecule  *)
(* (peer) that is a copy of it or was inserted into it, and calls that      *)
(* write into the arrays of one of them                                     *)

ShareContainers ==
    {Molecule(files) : files \in {<<>>, <<"mol2">>, <<"psf2">>, <<"coor2">>}}

Peer(kind, m, shared) == [kind |-> kind, m |-> m, shared |-> shared]

\* The values written by set: a field, and a value of its type.
SetArgs == {<<"resname", "XXX">>, <<"resid", 77>>, <<"name", "X">>, <<"coords", 999>>}

InitShare ==
    /\ mol \in ShareContainers
    /\ last = Did("init", "none", Consistent(mol))
    /\ calls = 0
    /\ uqid = NoID
    /\ peer = NoPeer

\* The bookkeeping of one call that returned r and left the second Molecule
\* as p.
CalledShare(op, r, p) ==
    /\ calls < MaxShareCalls
    /\ mol' = r.m
    /\ last' = Did(op, r.err, last.clean /\ r.err = "none")
    /\ calls' = calls + 1
    /\ peer' = p
    /\ UNCHANGED uqid

\* A call that writes into the arrays of the container and returned r.
WrittenContainer(op, r) ==
    /\ peer.kind # "none"
    /\ CalledShare(op, r, [peer EXCEPT !.m = SeenThrough(peer.m, r.m, peer.shared)])

\* peer = mol.copy()
Copy ==
    /\ peer.kind = "none"
    /\ CalledShare("copy", Ok(mol), Peer("copy", copy(mol), {}))

\* mol.insert(peer, index), mol.append(peer): the first insert
InsertPeer ==
    \E mo \in Inserted : \E index \in 0..numAtoms(mol) :
        /\ peer.kind = "none"
        /\ insert(mol, mo, index).err = "none"
        /\ CalledShare(IF index = numAtoms(mol) THEN "append" ELSE "insert",
                       insert(mol, mo, index),
                       Peer("inserted", mo, InsertShares(mol, mo)))

\* mol.insert(other, index) with a Molecule peer is held: the bond endpoints
\* of the container are shifted in place.
InsertAgain ==
    \E mo \in Inserted : \E index \in 0..numAtoms(mol) :
        /\ peer.kind # "none"
        /\ numAtoms(mol) + numAtoms(mo) <= MaxAtoms
        /\ insert(mol, mo, index).err = "none"
        /\ CalledShare("insert again", insert(mol, mo, index),
                       [peer EXCEPT !.shared = StillShared(peer.shared, mo)])

\* mol.set(field, value, sel)
SetField ==
    \E a \in SetArgs : \E sel \in SUBSET Atoms(mol) :
        WrittenContainer("set", set(mol, a[1], a[2], sel))

\* mol.moveBy(vector, sel)
MoveBy ==
    \E sel \in SUBSET Atoms(mol) : WrittenContainer("moveBy", moveBy(mol, 7, sel))

\* mol.renumberResidues()
RenumberResidues ==
    /\ numAtoms(mol) > 0
    /\ WrittenContainer("renumberResidues", renumberResidues(mol))

\* peer.set(field, value, sel): a write into the arrays of the second
\* Molecule
SetFieldPeer ==
    /\ peer.kind # "none"
    /\ \E a \in SetArgs : \E sel \in SUBSET Atoms(peer.m) :
          LET r == set(peer.m, a[1], a[2], sel)
          IN  CalledShare("peer.set",
                          [m |-> SeenThrough(mol, r.m, peer.shared), err |-> r.err],
                          [peer EXCEPT !.m = r.m])

NextShare ==
    \/ Copy
    \/ InsertPeer
    \/ InsertAgain
    \/ SetField
    \/ MoveBy
    \/ RenumberResidues
    \/ SetFieldPeer

SpecShare == InitShare /\ [][NextShare]_vars

----------------------------------------------------------------------------
(* Molecule.read: the guess and guessNE arguments *)

Properties == {"bonds", "angles", "dihedrals"}

\* The last part of read(..., guess=guess, guessNE=guessNE), after the merges.
\* guess and guessNE are None or the list ensurelist gives, held as a set;
\* g holds what self._guessBonds() and guessAnglesAndDihedrals(self.bonds)
\* return.  `x in None` raises TypeError, and `or` / `and` evaluate their
\* right side only when the left side does not decide.
guessProperties(m, guess, guessNE, g) ==
    LET \* the test `p in guess or (p in guessNE and len(self.<p>) == 0)`:
        \* "yes", "no", or "TypeError"
        Wanted(m1, p) ==
            IF ~guess.given THEN "TypeError"
            ELSE IF p \in guess.val THEN "yes"
            ELSE IF ~guessNE.given THEN "TypeError"
            ELSE IF p \in guessNE.val /\ Len(m1[p]) = 0 THEN "yes" ELSE "no"
        Dihedrals(m1) ==
            IF Wanted(m1, "dihedrals") = "TypeError" THEN Raise(m1, "TypeError")
            ELSE IF Wanted(m1, "dihedrals") = "yes"
            THEN Ok([m1 EXCEPT !.dihedrals = g.dihedrals])
            ELSE Ok(m1)
        Angles(m1) ==
            IF Wanted(m1, "angles") = "TypeError" THEN Raise(m1, "TypeError")
            ELSE IF Wanted(m1, "angles") = "yes"
            THEN Dihedrals([m1 EXCEPT !.angles = g.angles])
            ELSE Dihedrals(m1)
        AnglesAndDihedrals(m1) ==
            IF "dihedrals" \in guess.val \/ "angles" \in guess.val THEN Angles(m1)
            ELSE Ok(m1)
        Bonds(m1) ==
            IF Wanted(m1, "bonds") = "TypeError" THEN Raise(m1, "TypeError")
            ELSE IF Wanted(m1, "bonds") = "yes"
            THEN IF FrameFails(m1) THEN Raise(m1, "IndexError")
                 ELSE AnglesAndDihedrals(
                        [m1 EXCEPT !.bonds = g.bonds,
                                   !.bondtype = [i \in 1..Len(g.bonds) |-> "un"]])
            ELSE AnglesAndDihedrals(m1)
    IN  IF guess.given \/ guessNE.given THEN Bonds(m) ELSE Ok(m)

\* read(files, ..., guess=guess, guessNE=guessNE) on container m
readGuessing(m, c, guess, guessNE, g) ==
    LET r == DoRead(m, c, TRUE)
    IN  IF r.err # "none" THEN r ELSE guessProperties(r.m, guess, guessNE, g)

----------------------------------------------------------------------------
(* The state machine of reads that guess connectivity *)

\* The guess and guessNE arguments: None, or a list of properties.
GuessArgs == {None} \cup {Given(S) : S \in SUBSET Properties}

\* What the guessing functions return for n atoms: nothing, or the bonds,
\* angles and dihedrals of a chain through the atoms.
Guesses(n) ==
    {[bonds |-> <<>>, angles |-> <<>>, dihedrals |-> <<>>],
     [bonds |-> [i \in 1..(n - 1) |-> <<i - 1, i>>],
      angles |-> [i \in 1..(n - 2) |-> <<i - 1, i, i + 1>>],
      dihedrals |-> [i \in 1..(n - 3) |-> <<i - 1, i, i + 1, i + 2>>]]}

\* The read calls that guess: default arguments otherwise.
GuessReadCalls ==
    {ReadCall(files, OverwriteStr("all"), 0, FALSE, "A") :
        files \in {<<"psf4">>, <<"pdb4">>, <<"psf4", "pdb4">>, <<"mol2">>, <<"xtc4">>}}

InitGuess ==
    /\ mol = NewMolecule
    /\ last = Did("init", "none", TRUE)
    /\ calls = 0
    /\ uqid = NoID
    /\ peer = NoPeer

ReadGuessing ==
    \E c \in GuessReadCalls : \E guess \in GuessArgs : \E guessNE \in GuessArgs :
        \E g \in Guesses(numAtoms(DoRead(mol, c, TRUE).m)) :
            Called("read", readGuessing(mol, c, guess, guessNE, g), MaxGuessCalls)

NextGuess == ReadGuessing

SpecGuess == InitGuess /\ [][NextGuess]_vars

----------------------------------------------------------------------------
(* The state machine of the identity snapshots: a container, the snapshot   *)
(* the caller holds (uqid), and calls that build a snapshot from the        *)
(* container, resolve it against the container, compare it, or edit the     *)
(* container                                                                *)

\* The containers the snapshots are taken from; the last one keeps both
\* alternative locations of its atom.
IdContainers ==
    {Molecule(files) : files \in {<<>>, <<"pdb4">>, <<"psf4", "pdb4">>, <<"mol2">>,
                                  <<"coor2">>}}
        \cup {DoRead(NewMolecule,
                     ReadCall(<<"alt2">>, OverwriteStr("all"), 0, FALSE, "all"), TRUE).m}

\* The sel arguments: None, or a selection string, held as the atoms it
\* selects.
SelArgs(m) == {None} \cup {Given(S) : S \in SUBSET Atoms(m)}

\* The idx arguments of UniqueAtomID.fromMolecule: None, or one index.
AtomIdxArgs(m) == {None} \cup {Given(i) : i \in (0 - 1)..numAtoms(m)}

\* The idx arguments of UniqueResidueID.fromMolecule: None, one index or a
\* list of indices.
ResidueIdxArgs(m) ==
    {None} \cup {Given(S) : S \in SUBSET Atoms(m)} \cup {Given({numAtoms(m)})}

\* The ignore arguments: None (no field), one field, or a list of fields.
IgnoreArgs ==
    {{}, {"name"}, {"altloc"}, {"resname"}, {"resid"}, {"name", "altloc"},
     {"resname", "resid"}, UniqueAtomIDFields}

AtomID(id) == [kind |-> "atom", id |-> id]

ResidueID(id) == [kind |-> "residue", id |-> id]

InitIds ==
    /\ mol \in IdContainers
    /\ last = Did("init", "none", Consistent(mol))
    /\ calls = 0
    /\ uqid = NoID
    /\ peer = NoPeer

\* The bookkeeping of one call on a snapshot: it leaves the container alone,
\* and the caller holds the snapshot `held` afterwards.
CalledID(op, err, held) ==
    /\ calls < MaxIdCalls
    /\ mol' = mol
    /\ last' = Did(op, err, last.clean /\ err = "none")
    /\ calls' = calls + 1
    /\ uqid' = held
    /\ UNCHANGED peer

\* uqid = UniqueAtomID.fromMolecule(mol, sel, idx)
NewAtomID ==
    \E sel \in SelArgs(mol) : \E idx \in AtomIdxArgs(mol) :
        LET r == AtomIDFromMolecule(mol, sel, idx)
        IN  CalledID("UniqueAtomID.fromMolecule", r.err,
                     IF r.err = "none" THEN AtomID(r.id) ELSE uqid)

\* uqid = UniqueResidueID.fromMolecule(mol, sel, idx)
NewResidueID ==
    \E sel \in SelArgs(mol) : \E idx \in ResidueIdxArgs(mol) :
        LET r == ResidueIDFromMolecule(mol, sel, idx)
        IN  CalledID("UniqueResidueID.fromMolecule", r.err,
                     IF r.err = "none" THEN ResidueID(r.id) ELSE uqid)

\* uqid.selectAtom(mol, ignore=ignore)
SelectAtom ==
    \E ignore \in IgnoreArgs :
        /\ uqid.kind = "atom"
        /\ CalledID("selectAtom", selectAtomIgnore(uqid.id, mol, ignore).err, uqid)

\* uqid.selectAtoms(mol, ignore=ignore)
SelectAtoms ==
    \E ignore \in IgnoreArgs :
        /\ uqid.kind = "residue"
        /\ CalledID("selectAtoms", selectAtoms(uqid.id, mol, ignore).err, uqid)

\* uqid == UniqueAtomID.fromMolecule(mol, idx=i), and the same for residues
EqualsID ==
    \E i \in Atoms(mol) :
        /\ uqid.kind # "none"
        /\ IF uqid.kind = "atom"
           THEN /\ fromMolecule(mol, i).err = "none"
                /\ AtomIDEq(uqid.id, fromMolecule(mol, i).id) \in BOOLEAN
           ELSE /\ ResidueIDFromMolecule(mol, None, Given({i})).err = "none"
                /\ ResidueIDEq(uqid.id, ResidueIDFromMolecule(mol, None, Given({i})).id)
                      \in BOOLEAN
        /\ CalledID("__eq__", "none", uqid)

\* mol = Molecule(files): the caller turns to another Molecule and keeps the
\* snapshot.
Construct ==
    \E m \in IdContainers :
        /\ uqid.kind # "none"
        /\ m # mol
        /\ calls < MaxIdCalls
        /\ mol' = m
        /\ last' = Did("Molecule", "none", last.clean /\ Consistent(m))
        /\ calls' = calls + 1
        /\ UNCHANGED <<uqid, peer>>

RemoveIds ==
    \E sel \in SUBSET Atoms(mol) : Called("remove", remove(mol, sel, TRUE), MaxIdCalls)

MutateResidueIds ==
    \E s \in Residues(mol) :
        Called("mutateResidue", mutateResidue(mol, s, "GLY", TRUE), MaxIdCalls)

NextIds ==
    \/ NewAtomID
    \/ NewResidueID
    \/ SelectAtom
    \/ SelectAtoms
    \/ EqualsID
    \/ Construct
    \/ RemoveIds
    \/ MutateResidueIds

SpecIds == InitIds /\ [][NextIds]_vars

----------------------------------------------------------------------------
(* Claims about the edit calls, checked under Spec *)

\* C1: after any sequence of remove, filter, insert, append, reorderAtoms,
\* deleteBonds and mutateResidue calls that all returned, made on a container
\* that satisfied them at the start, every per-atom field has length
\* numAtoms, coords has numAtoms rows, and every endpoint of bonds, angles,
\* dihedrals and impropers is >= 0 and < numAtoms.
C1_LengthsAndEndpoints == last.clean => Consistent(mol)

\* The 1-based rows of an edge array with no endpoint in sel, ascending.
SurvivingRows(rows, sel) ==
    SortedSeq({k \in 1..Len(rows) : Range(rows[k]) \cap sel = {}})

\* The surviving rows, each endpoint i replaced by i minus the number of
\* removed indices smaller than i.
ExpectedEdges(rows, sel) ==
    LET Shifted(surv) ==
            [k \in 1..Len(surv) |->
                [j \in 1..Len(rows[surv[k]]) |->
                    rows[surv[k]][j] - Below(sel, rows[surv[k]][j])]]
    IN  Shifted(SurvivingRows(rows, sel))

ExpectedLabels(labels, rows, sel) ==
    IF Len(labels) = 0 THEN labels ELSE Take(labels, SurvivingRows(rows, sel))

RemoveRemaps(m, sel, r) ==
    r.err = "none" =>
        /\ \A k \in 1..Len(EdgeFields) :
              r.m[EdgeFields[k]] = ExpectedEdges(m[EdgeFields[k]], sel)
        /\ r.m.bondtype = ExpectedLabels(m.bondtype, m.bonds, sel)

\* C2: when remove(indices) returns, for each of bonds, angles, dihedrals and
\* impropers every edge with a removed endpoint is gone, every other edge is
\* kept in its row order with each endpoint i replaced by i minus the number
\* of removed indices below i (the remap is taken on the pre-deletion index
\* space), and bondtype keeps exactly the labels of the surviving bond rows.
C2_RemoveRemapsConnectivity ==
    \A sel \in SUBSET Atoms(mol) : \A strict \in NumpyStrict(mol) :
        RemoveRemaps(mol, sel, remove(mol, sel, strict))

\* A remove has returned, and a further remove drops one bond, keeps another
\* with a shifted endpoint, and prunes bondtype with it.
C2_Witness ==
    /\ last.op = "remove" /\ last.err = "none"
    /\ \E sel \in SUBSET Atoms(mol) :
          /\ remove(mol, sel, TRUE).err = "none"
          /\ Len(remove(mol, sel, TRUE).m.bonds) \in 1..(Len(mol.bonds) - 1)
          /\ remove(mol, sel, TRUE).m.bonds
                # Take(mol.bonds, SurvivingRows(mol.bonds, sel))
          /\ Len(remove(mol, sel, TRUE).m.bondtype) = Len(remove(mol, sel, TRUE).m.bonds)

\* Atom i's (name, altloc, resname, chain, resid, insertion, segid) tuple
\* occurs once in m.
UniqueIn(m, i) ==
    \A j \in Atoms(m) \ {i} : \E f \in UniqueAtomIDFields : m[f][j + 1] # m[f][i + 1]

Resolves(i, sel, s) ==
    IF i \in sel THEN s.err = "RuntimeError: no longer present"
    ELSE s.err = "none" /\ s.idx = i - Below(sel, i)

RoundTrip(m, sel, r) ==
    r.err = "none" =>
        \A i \in Atoms(m) :
            (fromMolecule(m, i).err = "none" /\ UniqueIn(m, i))
                => Resolves(i, sel, selectAtom(fromMolecule(m, i).id, r.m))

\* C3: for a UniqueAtomID captured from atom i whose identifying tuple is
\* unique in the Molecule: after a remove of other atoms returns, selectAtom
\* gives i minus the number of removed atoms below i; after a remove that
\* includes atom i, selectAtom raises the "no longer present" error.
C3_UniqueAtomIDRoundTrip ==
    \A sel \in SUBSET Atoms(mol) : \A strict \in NumpyStrict(mol) :
        RoundTrip(mol, sel, remove(mol, sel, strict))

Reordered(m, order, r) ==
    r.err = "none" =>
        /\ \A k \in 1..Len(AtomFields) :
              Len(m[AtomFields[k]]) # 0 =>
                  r.m[AtomFields[k]]
                      = [i \in 1..Len(order) |-> m[AtomFields[k]][order[i] + 1]]
        /\ Len(m.coords.rows) # 0 =>
              /\ r.m.coords.rows = [i \in 1..Len(order) |-> m.coords.rows[order[i] + 1]]
              /\ r.m.coords.nf = m.coords.nf
        /\ \A k \in 1..Len(EdgeFields) :
              /\ Len(r.m[EdgeFields[k]]) = Len(m[EdgeFields[k]])
              /\ \A i \in 1..Len(m[EdgeFields[k]]) :
                    /\ Len(r.m[EdgeFields[k]][i]) = Len(m[EdgeFields[k]][i])
                    /\ \A j \in 1..Len(m[EdgeFields[k]][i]) :
                          order[r.m[EdgeFields[k]][i][j] + 1] = m[EdgeFields[k]][i][j]
        /\ r.m.bondtype = m.bondtype

\* C4: when reorderAtoms(order) returns, for any permutation order of
\* 0..N-1, new[i] = old[order[i]] for every non-empty per-atom field and for
\* the coords of every frame, every endpoint e of bonds, angles, dihedrals
\* and impropers is replaced by the position j with order[j] = e, and
\* bondtype and the row order of every connectivity array are unchanged.
C4_ReorderAtomsPermutes ==
    \A order \in Orders(numAtoms(mol)) : Reordered(mol, order, reorderAtoms(mol, order))

\* A reorder has returned, and a further reorder by a permutation that is not
\* its own inverse moves coordinates and bond endpoints.
C4_Witness ==
    /\ last.op = "reorderAtoms" /\ last.err = "none"
    /\ \E order \in Orders(numAtoms(mol)) :
          /\ \E i \in 1..Len(order) : order[order[i] + 1] # i - 1
          /\ reorderAtoms(mol, order).err = "none"
          /\ Len(mol.bonds) > 0 /\ numFrames(mol) > 0
          /\ reorderAtoms(mol, order).m.bonds # mol.bonds
          /\ reorderAtoms(mol, order).m.coords # mol.coords

\* The rows of mo's field that insert splices in: defaults when mo has none.
InsertedRows(mo, field) ==
    IF FSizeZero(mo, field) THEN EmptyField(numAtoms(mo), field) ELSE mo[field]

Spliced(m, mo, index, r) ==
    (r.err = "none" /\ numFrames(m) = 1 /\ numFrames(mo) = 1) =>
        /\ numAtoms(r.m) = numAtoms(m) + numAtoms(mo)
        /\ \A f \in Range(AtomFields) \ {"serial"} :
              /\ Len(r.m[f]) = numAtoms(m) + numAtoms(mo)
              /\ SubSeq(r.m[f], index + 1, index + numAtoms(mo)) = InsertedRows(mo, f)
        /\ Len(r.m.coords.rows) = numAtoms(m) + numAtoms(mo)
        /\ SubSeq(r.m.coords.rows, index + 1, index + numAtoms(mo)) = mo.coords.rows
        /\ Len(r.m.bonds) = Len(m.bonds) + Len(mo.bonds)
        /\ \A i \in 1..Len(m.bonds) : \A j \in 1..2 :
              r.m.bonds[i][j] = IF m.bonds[i][j] >= index
                                THEN m.bonds[i][j] + numAtoms(mo) ELSE m.bonds[i][j]
        /\ \A i \in 1..Len(mo.bonds) : \A j \in 1..2 :
              r.m.bonds[Len(m.bonds) + i][j] = mo.bonds[i][j] + index
        /\ Len(r.m.bondtype) = Len(r.m.bonds)

\* C5: insert(mol, index) on single-frame molecules yields numAtoms = old
\* numAtoms + mol.numAtoms with mol's rows at positions index..index +
\* mol.numAtoms - 1; every existing bond endpoint >= index grows by
\* mol.numAtoms and the others are unchanged; mol's bonds follow the existing
\* bonds with every endpoint increased by index; the bond rows number the sum
\* of both bond counts and bondtype has one label per bond row.
C5_InsertSplices ==
    \A mo \in Inserted : \A index \in 0..numAtoms(mol) :
        Spliced(mol, mo, index, insert(mol, mo, index))

\* C6: if insert (or append) raises for any reason, every field of the
\* container equals its value from before the call.
C6_InsertRollsBack ==
    \A mo \in Inserted : \A index \in 0..(numAtoms(mol) + 1) :
        insert(mol, mo, index).err # "none" => insert(mol, mo, index).m = mol

----------------------------------------------------------------------------
(* Claims about read and the topology merge, checked under SpecRead *)

Unchanged(m, r) == r.err = "TopologyInconsistencyError" => r.m = m

\* C7: if a read fails with a topology inconsistency, no field of the
\* container differs from its value before the call, also when several
\* sources are merged in one call and the failing source is not the first.
C7_FailedMergeLeavesContainer ==
    \A c \in ReadCalls : \A strict \in ReadStrict(mol, c) :
        Unchanged(mol, DoRead(mol, c, strict))

\* The overwrite policy as the caller states it: 'all', or naming the field.
PolicySelects(ow, field) ==
    \/ ow.kind = "str" /\ ow.s \in {"all", field}
    \/ ow.kind = "list" /\ (ow.l[1] = "all" \/ field \in Range(ow.l))

\* The container as the merge of mo sees it: one without a topology is first
\* given default per-atom fields of mo's atom count.
Prepared(m, mo) == IF numAtomsTopo(m) = 0 THEN emptyTopo(m, numAtoms(mo)) ELSE m

\* The incoming fields that are not selected and differ from the container's.
FieldConflicts(m1, mo1, ow) ==
    {f \in Range(TopoFields) :
        ~AllDefault(f, mo1[f]) /\ ~PolicySelects(ow, f) /\ m1[f] # mo1[f]}

\* The incoming per-atom fields whose length is not the container's.
LengthMismatches(m1, mo1) ==
    {f \in Range(AtomFields) : ~AllDefault(f, mo1[f]) /\ Len(m1[f]) # Len(mo1[f])}

\* The field loop took container m1 and incoming mo1 to rf; `failing` are the
\* fields that make it fail.
FieldPolicy(m1, mo1, ow, rf, failing) ==
    /\ \A f \in Range(TopoFields) : AllDefault(f, mo1[f]) => rf.m[f] = m1[f]
    /\ (rf.err = "none") =>
          \A f \in Range(TopoFields) :
              (~AllDefault(f, mo1[f])) =>
                  /\ rf.m[f] = mo1[f]
                  /\ PolicySelects(ow, f) \/ m1[f] = mo1[f]
    /\ rf.err = IF failing = {} THEN "none" ELSE "TopologyInconsistencyError"

\* The field loop of the merge of file's topology into the container, after
\* the names are reconciled.
FieldLoop(m1, rn, ow, lengths) ==
    rn.err = "none" =>
        FieldPolicy(m1, rn.m, ow, MergeFields(m1, rn.m, NormalizeOverwrite(ow), 1),
                    FieldConflicts(m1, rn.m, ow)
                        \cup (IF lengths THEN LengthMismatches(m1, rn.m) ELSE {}))

MergePolicy(m1, mo, ow, lengths) ==
    numAtomsTopo(mo) # 0 =>
        FieldLoop(m1, ReconcileNames(m1, mo, NormalizeOverwrite(ow)), ow, lengths)

\* C8 as stated: in a topology merge, every incoming field that is not
\* entirely empty/default replaces the container's field when the overwrite
\* policy is 'all' or names it, and otherwise must equal the container's
\* value, the merge failing with TopologyInconsistencyError exactly when such
\* an unselected field differs; entirely empty, '' or zero incoming fields
\* never change the container's field.
C8_OverwritePolicyAsStated ==
    \A file \in Files : \A ow \in OverwriteArgs :
        MergePolicy(Prepared(mol, Reader(file)), Reader(file), ow, FALSE)

\* C8, amended: the same, except that a non-default incoming per-atom field
\* whose length is not the container's makes the merge fail with
\* TopologyInconsistencyError whatever the overwrite policy; the fields
\* compared are the container's after a topology-less container received
\* its default fields and the incoming ones after the name reordering.
C8_OverwritePolicy ==
    \A file \in Files : \A ow \in OverwriteArgs :
        MergePolicy(Prepared(mol, Reader(file)), Reader(file), ow, TRUE)

\* After a read, one source replaces a differing field the policy names,
\* fails on it under overwrite=None, and another source of a different atom
\* count fails under overwrite='all'.
C8_Witness ==
    /\ last.op = "read" /\ last.err = "none" /\ numAtomsTopo(mol) # 0
    /\ \E file \in Files :
          /\ Reader(file).resid # mol.resid /\ Reader(file).name = mol.name
          /\ MergeFields(mol, Reader(file), NormalizeOverwrite(OverwriteList(<<"resid">>)),
                         1).err = "none"
          /\ MergeFields(mol, Reader(file), NormalizeOverwrite(OverwriteList(<<"resid">>)),
                         1).m.resid = Reader(file).resid
          /\ MergeFields(mol, Reader(file), NormalizeOverwrite(OverwriteNone), 1).err
                = "TopologyInconsistencyError"
    /\ \E file \in Files :
          /\ LengthMismatches(mol, Reader(file)) # {}
          /\ MergeOneTopology(mol, Reader(file), NormalizeOverwrite(OverwriteStr("all"))).err
                = "TopologyInconsistencyError"

SameMultiset(a, b) ==
    \A x \in Range(a) \cup Range(b) :
        Cardinality({i \in 1..Len(a) : a[i] = x})
            = Cardinality({i \in 1..Len(b) : b[i] = x})

PairwiseDistinct(a) == \A i, j \in 1..Len(a) : i # j => a[i] # a[j]

\* rn is mo reordered so that its names are m's, position by position.
ReorderedTo(m, mo, rn) ==
    /\ rn.err = "none"
    /\ rn.m.name = m.name
    /\ \E order \in Orders(Len(m.name)) :
          /\ \A i \in 1..Len(order) : mo.name[order[i] + 1] = m.name[i]
          /\ Reordered(mo, order, Ok(rn.m))

\* The container holds names, the incoming topology has as many atoms, and
\* the two name sequences differ.
NamesDiffer(m, mo) ==
    /\ numAtomsTopo(m) # 0
    /\ numAtomsTopo(mo) = numAtomsTopo(m)
    /\ m.name # mo.name

NamesAsStated(m, mo, ow, rn) ==
    NamesDiffer(m, mo) =>
        IF SameMultiset(m.name, mo.name) THEN ReorderedTo(m, mo, rn)
        ELSE MergeOneTopology(m, mo, ow).err = "TopologyInconsistencyError"

NamesReconciled(m, mo, ow, rn) ==
    (/\ NamesDiffer(m, mo)
     /\ \E i \in 1..Len(m.name) : m.name[i] # ""
     /\ \E i \in 1..Len(mo.name) : mo.name[i] # "") =>
        IF PairwiseDistinct(m.name)
        THEN IF SameMultiset(m.name, mo.name) THEN ReorderedTo(m, mo, rn)
             ELSE MergeOneTopology(m, mo, ow).err = "TopologyInconsistencyError"
        ELSE Range(m.name) \subseteq Range(mo.name) =>
                /\ rn.err = "RuntimeError" /\ rn.m = mo
                /\ MergeOneTopology(m, mo, ow).err = "RuntimeError"

CountMismatch(m, c) ==
    \E i \in 1..Len(c.files) :
        \/ numAtoms(m) # 0 /\ numAtoms(Reader(c.files[i])) # numAtoms(m)
        \/ \E j \in 1..Len(c.files) :
              numAtoms(Reader(c.files[j])) # numAtoms(Reader(c.files[i]))

CountsChecked(m, c, r) ==
    /\ CountMismatch(m, c) => r.err # "none"
    /\ (r.err = "none" /\ numAtomsTopo(r.m) # 0 /\ numAtomsTraj(r.m) # 0)
          => numAtomsTraj(r.m) = numAtomsTopo(r.m)

\* C10: a read fails whenever a source's atom count differs from the atom
\* count of the container or of another source loaded in the same call, so
\* after every successful read the first dimension of coords equals the
\* length of the per-atom fields whenever both are non-empty.
C10_AtomCountMismatchFails ==
    \A c \in ReadCalls : \A strict \in ReadStrict(mol, c) :
        CountsChecked(mol, c, DoRead(mol, c, strict))

----------------------------------------------------------------------------
(* Claims about the trajectory merge, checked under SpecRead *)

\* The arguments read takes when only the files are given.
DefaultRead(files) == ReadCall(files, OverwriteStr("all"), 0, FALSE, "A")

CoordinatesOnly(m) == numAtomsTopo(m) = 0 /\ numAtomsTraj(m) # 0

TopologyOnly(mo) == numAtomsTopo(mo) # 0 /\ numAtomsTraj(mo) = 0 /\ mo.bonds # <<>>

TrajectoryFields == {"coords", "box", "boxangles", "time", "step", "fileloc", "frame"}

BondsMerged(m, mo, r) ==
    /\ r.err = "none"
    /\ r.m.bonds = mo.bonds
    /\ \A f \in TrajectoryFields : r.m[f] = m[f]

\* C11: reading a topology-only source (bonds, no coordinates) into a
\* container that holds only coordinates of the same atom count succeeds,
\* sets the container's bonds to the source's bonds and leaves coords, box,
\* boxangles, time, step, the per-frame fileloc records and the active frame
\* unchanged (read with its default arguments).
C11_TopologyIntoCoordinates ==
    \A file \in Files :
        (/\ CoordinatesOnly(mol)
         /\ TopologyOnly(Reader(file))
         /\ numAtoms(Reader(file)) = numAtoms(mol)) =>
            BondsMerged(mol, Reader(file), DoRead(mol, DefaultRead(<<file>>), TRUE))

\* Frame f (from 1) of a coordinate block: the coordinates of its atoms,
\* whatever the order of the atoms (the topology merge may reorder them).
FrameOf(m, f) == {m.coords.rows[r][f] : r \in 1..Len(m.coords.rows)}

FramesOf(m) == [f \in 1..m.coords.nf |-> FrameOf(m, f)]

RECURSIVE SourceFrames(_, _)
\* The frames of the files that carry a trajectory, in the order given.
SourceFrames(files, i) ==
    IF i > Len(files) THEN <<>>
    ELSE FramesOf(Reader(files[i])) \o SourceFrames(files, i + 1)

\* The frames the claim expects before the stride is applied.
MergedFrames(m, c) ==
    (IF c.doAppend THEN FramesOf(m) ELSE <<>>) \o SourceFrames(c.files, 1)

\* out holds exactly the elements of s at positions 0, n, 2n, ... (n = 0: all)
Strided(s, n, out) ==
    IF n = 0 THEN out = s
    ELSE /\ Len(out) = Cardinality({i \in 1..Len(s) : (i - 1) % n = 0})
         /\ \A j \in 1..Len(out) : out[j] = s[(j - 1) * n + 1]

CarriesTrajectory(c) == \E i \in 1..Len(c.files) : numAtomsTraj(Reader(c.files[i])) # 0

FramesConcatenated(m, c, r) ==
    (/\ r.err = "none"
     /\ CarriesTrajectory(c)
     /\ \A i \in 1..Len(c.files) :
           numAtomsTraj(Reader(c.files[i])) \in {0, numAtomsTraj(r.m)}) =>
        /\ Strided(MergedFrames(m, c), c.skip, FramesOf(r.m))
        /\ c.skip = 0 => numFrames(r.m) = Len(MergedFrames(m, c))

\* C12: after a read that merges the trajectories of sources s1..sk, the
\* container's frames are the frames of s1..sk concatenated in the order
\* given, preceded by the container's previous frames exactly when append is
\* requested and replacing them otherwise, so numFrames is the sum of the
\* sources' frame counts (plus the previous count under append); with a
\* stride skip = n exactly the frames at positions 0, n, 2n, ... of that
\* concatenation are kept.  (Compared when no atom was dropped by the
\* alternate-location filter.)
C12_FramesConcatenated ==
    \A c \in ReadCalls : \A strict \in ReadStrict(mol, c) :
        FramesConcatenated(mol, c, DoRead(mol, c, strict))

\* A container of two frames can read two more with append and a stride:
\* four frames are concatenated and the first and third are kept.
C12_Witness ==
    /\ last.op = "read" /\ last.err = "none" /\ numFrames(mol) = 2
    /\ \E c \in ReadCalls :
          /\ c.doAppend /\ c.skip = 2 /\ CarriesTrajectory(c)
          /\ DoRead(mol, c, TRUE).err = "none"
          /\ Len(MergedFrames(mol, c)) = 4
          /\ FramesOf(DoRead(mol, c, TRUE).m)
                = <<MergedFrames(mol, c)[1], MergedFrames(mol, c)[3]>>
          /\ MergedFrames(mol, c)[1] # MergedFrames(mol, c)[3]

Aligned(m) ==
    /\ Len(m.box) = numFrames(m)
    /\ Len(m.boxangles) = numFrames(m)
    /\ Len(m.time) = numFrames(m)
    /\ Len(m.step) = numFrames(m)
    /\ Len(m.fileloc) = numFrames(m)

\* C13: after every read that returns (any combination of topology and
\* trajectory sources, with or without append, with or without skip) the
\* second dimension of box and of boxangles, the length of time, the length
\* of step and the number of fileloc records all equal numFrames.
C13_PerFrameSequencesAligned ==
    \A c \in ReadCalls : \A strict \in ReadStrict(mol, c) :
        (Aligned(mol) /\ DoRead(mol, c, strict).err = "none")
            => Aligned(DoRead(mol, c, strict).m)

----------------------------------------------------------------------------
(* Claims about the active frame, checked under SpecFrames *)

\* C14: every call that changes the number of frames (a read that merges a
\* trajectory, with or without append or skip, dropFrames, appendFrames)
\* leaves the active frame pointer at 0, so that reading the frame property
\* afterwards does not raise when the container has at least one frame.
C14_FramePointerReset ==
    [][numFrames(mol') # numFrames(mol) =>
          /\ mol'.frame = 0
          /\ numFrames(mol') >= 1 => ~FrameFails(mol')]_vars

FrameAssigned(m, value, r) ==
    IF value \in 0..(numFrames(m) - 1)
    THEN r.err = "none" /\ r.m = [m EXCEPT !.frame = value]
    ELSE r.err # "none" /\ r.m = m

\* C15: assigning the active frame a value outside [0, numFrames) raises and
\* leaves the stored frame pointer unchanged, for every container including
\* one with zero frames; assigning a value inside the range stores it.
C15_FrameAssignmentChecked ==
    \A value \in FrameValues : FrameAssigned(mol, value, setFrame(mol, value))

----------------------------------------------------------------------------
(* Claims about the atom-count changes, checked under Spec *)

\* A call returned and the container has another number of atoms.
AtomCountChanged == last'.err = "none" /\ numAtoms(mol') # numAtoms(mol)

\* C16: after any call that changes the atom count (remove, filter, insert,
\* append, mutateResidue) the serial field is 1, 2, ..., numAtoms in order.
C16_SerialContiguous ==
    [][AtomCountChanged => mol'.serial = [i \in 1..numAtoms(mol') |-> i]]_vars

\* C17: after any call that changes the atom count (insert, append, and
\* remove and filter when an atom is removed) box and boxangles are all
\* zeros, one column per frame.
C17_BoxReset ==
    [][AtomCountChanged =>
          /\ mol'.box = [f \in 1..numFrames(mol') |-> 0]
          /\ mol'.boxangles = [f \in 1..numFrames(mol') |-> 0]]_vars

----------------------------------------------------------------------------
(* Claims about the alternate-location filter, checked under SpecRead *)

\* read with the arguments of c and the given value of the logging flag.
ReadLogging(m, c, logger, strict) ==
    read(m, [i \in 1..Len(c.files) |-> Reader(c.files[i])], c.overwrite, c.skip,
         c.doAppend, c.keepaltloc, logger, strict)

\* The container as the filter finds it: after the topologies and the
\* trajectories of the call were merged.
BeforeFilter(m, c) ==
    LET Merged(t) == mergeTrajectories(t.m, t.mols, c.skip, c.doAppend).m
    IN  Merged(mergeTopologies(m, [i \in 1..Len(c.files) |-> Reader(c.files[i])],
                               c.overwrite))

\* The atoms (from 0) whose altloc is neither empty nor the one kept.
OtherAltLocs(mb, keepaltloc) ==
    {i \in 0..(Len(mb.altloc) - 1) : mb.altloc[i + 1] \notin {"", keepaltloc}}

\* mf is mb without the atoms of S: in every per-atom field, in coords and
\* in the connectivity.
AtomsDropped(mb, S, mf) ==
    /\ \A f \in Range(AtomFields) :
          mf[f] = Take(mb[f], SortedSeq({k \in 1..Len(mb[f]) : (k - 1) \notin S}))
    /\ mf.coords.rows
          = Take(mb.coords.rows,
                 SortedSeq({k \in 1..Len(mb.coords.rows) : (k - 1) \notin S}))
    /\ \A k \in 1..Len(EdgeFields) :
          mf[EdgeFields[k]] = ExpectedEdges(mb[EdgeFields[k]], S)
    /\ mf.bondtype = ExpectedLabels(mb.bondtype, mb.bonds, S)

AltLocFiltered(mb, c, r) ==
    r.err = "none" =>
        IF c.keepaltloc = "all" THEN r.m = mb
        ELSE /\ \A i \in 1..Len(r.m.altloc) : r.m.altloc[i] \in {"", c.keepaltloc}
             /\ AtomsDropped(mb, OtherAltLocs(mb, c.keepaltloc), r.m)

\* C18: after a read with keepaltloc = X other than 'all', every atom left
\* in the container has an altloc that is empty or X, whatever the value of
\* the logging flag, and the atoms removed are removed from every per-atom
\* field, coords and connectivity alike; after a read with keepaltloc =
\* 'all' no atom is removed by the filter.
C18_AltLocFiltered ==
    \A c \in ReadCalls : \A logger \in BOOLEAN : \A strict \in ReadStrict(mol, c) :
        AltLocFiltered(BeforeFilter(mol, c), c, ReadLogging(mol, c, logger, strict))

----------------------------------------------------------------------------
(* Claims about the bonds, checked under Spec *)

\* The bond rows (from 1) the claim says are removed.
RemovedBonds(bonds, sel, inter) ==
    {k \in 1..Len(bonds) :
        IF inter THEN \E j \in 1..2 : bonds[k][j] \in sel
        ELSE \A j \in 1..2 : bonds[k][j] \in sel}

\* s without the elements at the positions of gone, in order.
Without(s, gone) == Take(s, SortedSeq({k \in 1..Len(s) : k \notin gone}))

BondsDeleted(m, sel, inter, r) ==
    r.err = "none" =>
        /\ r.m.bonds = Without(m.bonds, RemovedBonds(m.bonds, sel, inter))
        /\ r.m.bondtype = Without(m.bondtype, RemovedBonds(m.bonds, sel, inter))
        /\ \A f \in DOMAIN m \ {"bonds", "bondtype"} : r.m[f] = m[f]
        /\ sel = {} => r.m = m

\* C19: deleteBonds(sel, inter=True) removes exactly the bonds with at least
\* one endpoint in sel and deleteBonds(sel, inter=False) exactly the bonds
\* with both endpoints in sel; the remaining bonds keep their order, bondtype
\* loses exactly the labels of the removed rows, the per-atom fields, coords,
\* angles, dihedrals and impropers are unchanged, and an empty selection
\* changes nothing.
C19_DeleteBondsExact ==
    \A sel \in SUBSET Atoms(mol) : \A inter \in BOOLEAN : \A strict \in NumpyStrict(mol) :
        BondsDeleted(mol, sel, inter, deleteBonds(mol, sel, inter, strict))

\* After a deleteBonds that returned, a selection of two atoms cuts more
\* bonds with inter=True than with inter=False, which removes one bond and
\* its label and keeps another.
C19_Witness ==
    /\ last.op = "deleteBonds" /\ last.err = "none"
    /\ \E sel \in SUBSET Atoms(mol) :
          /\ deleteBonds(mol, sel, FALSE, TRUE).err = "none"
          /\ deleteBonds(mol, sel, TRUE, TRUE).err = "none"
          /\ Len(deleteBonds(mol, sel, FALSE, TRUE).m.bonds) \in 1..(Len(mol.bonds) - 1)
          /\ Len(deleteBonds(mol, sel, TRUE, TRUE).m.bonds)
                < Len(deleteBonds(mol, sel, FALSE, TRUE).m.bonds)
          /\ deleteBonds(mol, sel, FALSE, TRUE).m.bondtype # mol.bondtype
          /\ Len(mol.angles) > 0

----------------------------------------------------------------------------
(* Claims about calculateUniqueBonds, checked under SpecBonds *)

\* The (min, max, type) tuples of the input, or the (min, max) pairs when no
\* types are supplied.
InputTuples(bonds, bondtype) ==
    {IF Len(bondtype) > 0
     THEN <<Min(bonds[i][1], bonds[i][2]), Max(bonds[i][1], bonds[i][2]), bondtype[i]>>
     ELSE <<Min(bonds[i][1], bonds[i][2]), Max(bonds[i][1], bonds[i][2])>> :
        i \in 1..Len(bonds)}

\* The rows returned, each with its own type when types were supplied.
OutputTuples(out, bondtype) ==
    {IF Len(bondtype) > 0 THEN out.bonds[i] \o <<out.bondtype[i]>> ELSE out.bonds[i] :
        i \in 1..Len(out.bonds)}

UniqueBondsReturned(bonds, bondtype, out) ==
    /\ out.err = "none"
    /\ Len(bondtype) > 0 => Len(out.bondtype) = Len(out.bonds)
    /\ OutputTuples(out, bondtype) = InputTuples(bonds, bondtype)
    /\ Len(out.bonds) = Cardinality(InputTuples(bonds, bondtype))
    /\ \A i, j \in 1..Len(out.bonds) : i < j => out.bonds[i][1] <= out.bonds[j][1]

\* C20: calculateUniqueBonds(bonds, bondtype) returns rows whose set is
\* exactly the set of (min(a,b), max(a,b), type) tuples of the input (of the
\* (min, max) pairs when no types are supplied), with no duplicate row, each
\* returned type paired with its own bond, and rows ordered by non-decreasing
\* first endpoint; two bonds with the same endpoints and different types are
\* both kept.  (For a bondtype that is absent or has one label per bond.)
C20_UniqueBonds ==
    Len(mol.bondtype) \in {0, Len(mol.bonds)} =>
        \A out \in calculateUniqueBonds(mol.bonds, mol.bondtype) :
            UniqueBondsReturned(mol.bonds, mol.bondtype, out)

----------------------------------------------------------------------------
(* Claims about the canonical form of calculateUniqueBonds, checked under   *)
(* SpecBonds                                                                *)

\* The inputs that are row permutations of (bonds, bondtype), the endpoints
\* of a row in either direction, each bond keeping its type.
RowPermutations(bonds, bondtype) ==
    {in \in [bonds : [1..Len(bonds) -> BondRows], bondtype : {bondtype} \cup [1..Len(bondtype) -> BondTypes]] :
        \E p \in Orders(Len(bonds)) :
            /\ \A i \in 1..Len(bonds) :
                  SortedBond(in.bonds[i]) = SortedBond(bonds[p[i] + 1])
            /\ Len(in.bondtype) = Len(bondtype)
            /\ Len(bondtype) = Len(bonds) =>
                  \A i \in 1..Len(bonds) : in.bondtype[i] = bondtype[p[i] + 1]}

\* C21: calculateUniqueBonds returns a canonical form: two inputs that are
\* row permutations of each other (endpoints possibly swapped inside a row)
\* give outputs identical row for row, and calculateUniqueBonds of its own
\* output returns that output unchanged, the order of the rows that share a
\* first endpoint included.
C21_CanonicalForm ==
    Len(mol.bondtype) \in {0, Len(mol.bonds)} =>
        \A out \in calculateUniqueBonds(mol.bonds, mol.bondtype) :
            /\ \A in \in RowPermutations(mol.bonds, mol.bondtype) :
                  \A other \in calculateUniqueBonds(in.bonds, in.bondtype) :
                      other = out
            /\ out.err = "none" =>
                  \A again \in calculateUniqueBonds(out.bonds, out.bondtype) :
                      again = out

----------------------------------------------------------------------------
(* Claims about the identity snapshots, checked under SpecIds *)

\* The fields that identify an atom, and those that identify a residue.
AtomKey == {"name", "altloc", "resname", "chain", "resid", "insertion", "segid"}

ResidueKey == {"resname", "chain", "resid", "insertion", "segid"}

\* The rows of m equal to the snapshot on every one of `fields` not ignored.
MatchingRows(id, m, fields, ignore) ==
    {i \in Atoms(m) :
        \A f \in fields \ ignore : i < Len(m[f]) /\ m[f][i + 1] = id[f]}

\* The outcome the statement gives selectAtom for the rows that match.
AtomSelected(rows, s) ==
    /\ Cardinality(rows) = 1 => s.err = "none" /\ s.idx \in rows
    /\ Cardinality(rows) = 0 => s.err = "RuntimeError: no longer present"
    /\ Cardinality(rows) > 1 => s.err = "RuntimeError: no longer unique"

SelectAtomScans ==
    uqid.kind = "atom" =>
        \A ignore \in IgnoreArgs :
            AtomSelected(MatchingRows(uqid.id, mol, AtomKey, ignore),
                         selectAtomIgnore(uqid.id, mol, ignore))

\* C22: UniqueAtomID.selectAtom(mol, ignore=F) scans the container for the
\* rows equal to the snapshot on every field of (name, altloc, resname,
\* chain, resid, insertion, segid) not in F: one matching row, it returns
\* that row's index; none, it raises the "no longer present" error; more
\* than one, it raises the "no longer unique" error; the container is never
\* modified.
C22_SelectAtomScans ==
    [][/\ SelectAtomScans'
       /\ last'.op = "selectAtom" => mol' = mol]_vars

\* What selectAtoms gives for the rows that match: all of them in ascending
\* order, or an error when there is none.
ResidueSelected(rows, s) ==
    IF rows = {} THEN s.err # "none"
    ELSE s.err = "none" /\ s.idx = SortedSeq(rows)

\* The atoms of the snapshot's residue in m.
ResidueAtoms(id, m) == MatchingRows(id, m, ResidueKey, {})

\* The indices of `rows` after the atoms of sel, none of them in rows, are
\* removed: each reduced by the number of removed atoms below it.
Shifted(rows, sel) == {i - Below(sel, i) : i \in rows}

SelectAtomsAfterRemove(id, m) ==
    \A sel \in SUBSET (Atoms(m) \ ResidueAtoms(id, m)) :
        LET r == remove(m, sel, TRUE)
        IN  (ResidueAtoms(id, m) # {} /\ r.err = "none") =>
                LET s == selectAtoms(id, r.m, {})
                IN  s.err = "none" /\ s.idx = SortedSeq(Shifted(ResidueAtoms(id, m), sel))

\* C23: UniqueResidueID.selectAtoms returns, in ascending order, the indices
\* of all rows of the container whose (resname, chain, resid, insertion,
\* segid) equal the snapshot on every field not ignored, and raises if there
\* is none; after a remove of atoms that do not belong to the residue it
\* returns the residue's atoms at their shifted indices, each reduced by the
\* number of removed atoms below it.
C23_SelectAtomsReturnsResidue ==
    uqid.kind = "residue" =>
        /\ \A ignore \in IgnoreArgs :
              ResidueSelected(MatchingRows(uqid.id, mol, ResidueKey, ignore),
                              selectAtoms(uqid.id, mol, ignore))
        /\ SelectAtomsAfterRemove(uqid.id, mol)

\* A residue snapshot taken before a remove of atoms below the residue, which
\* selectAtoms resolves to the shifted indices.
C23_Witness ==
    /\ uqid.kind = "residue"
    /\ last.op = "selectAtoms"
    /\ last.err = "none"
    /\ numAtoms(mol) = 2
    /\ selectAtoms(uqid.id, mol, {}).idx = <<1>>
    /\ mol.name = <<"CB", "N">>

\* The atoms the arguments of UniqueAtomID.fromMolecule resolve to: those of
\* the selection, or the one idx names (an index below zero counts from the
\* end).
AtomResolved(m, sel, idx) ==
    IF sel.given THEN sel.val ELSE {NpIndex(numAtoms(m), idx.val)} \cap Atoms(m)

\* The atoms the arguments of UniqueResidueID.fromMolecule name.
ResidueNamed(sel, idx) == IF sel.given THEN sel.val ELSE idx.val

OneGiven(sel, idx) == sel.given # idx.given

\* The snapshot holds, for each field, the value all of `atoms` have.
HoldsValuesOf(id, m, atoms, fields) ==
    \A f \in fields : \A i \in atoms : i < Len(m[f]) /\ id[f] = m[f][i + 1]

AtomIDStrict(m) ==
    \A sel \in SelArgs(m) : \A idx \in AtomIdxArgs(m) :
        LET r == AtomIDFromMolecule(m, sel, idx)
        IN  IF OneGiven(sel, idx)
            THEN /\ Cardinality(AtomResolved(m, sel, idx)) # 1 => r.err # "none"
                 /\ r.err = "none" =>
                       HoldsValuesOf(r.id, m, AtomResolved(m, sel, idx), AtomKey)
            ELSE r.err # "none"

\* Field f has a single value over the atoms.
Uniform(m, atoms, f) ==
    \A i, j \in atoms : i < Len(m[f]) /\ j < Len(m[f]) /\ m[f][i + 1] = m[f][j + 1]

ResidueIDStrict(m) ==
    \A sel \in SelArgs(m) : \A idx \in ResidueIdxArgs(m) :
        LET r == ResidueIDFromMolecule(m, sel, idx)
        IN  IF OneGiven(sel, idx)
            THEN /\ ResidueNamed(sel, idx) \cap Atoms(m) = {} => r.err # "none"
                 /\ (\E f \in ResidueKey : ~Uniform(m, ResidueNamed(sel, idx), f))
                       => r.err # "none"
                 /\ r.err = "none" =>
                       /\ ResidueNamed(sel, idx) # {}
                       /\ ResidueNamed(sel, idx) \subseteq Atoms(m)
                       /\ HoldsValuesOf(r.id, m, ResidueNamed(sel, idx), ResidueKey)
            ELSE r.err # "none"

\* C24: identity construction is strict.  UniqueAtomID.fromMolecule raises
\* unless exactly one of sel and idx is given and the selection resolves to
\* exactly one atom; UniqueResidueID.fromMolecule raises unless exactly one of
\* sel and idx is given, at least one atom is matched, and each of resname,
\* chain, resid, insertion and segid has a single value over the matched
\* atoms.  On success the snapshot holds the field values of the matched
\* atom(s), and a later edit of the container does not change the snapshot.
C24_ConstructionStrict ==
    /\ [](AtomIDStrict(mol) /\ ResidueIDStrict(mol))
    /\ [][(last'.op \in {"remove", "mutateResidue"} /\ uqid.kind # "none")
             => uqid' = uqid]_vars

\* A residue snapshot that still holds the residue name it was built with
\* after mutateResidue has renamed the residue in the container.
C24_Witness ==
    /\ uqid.kind = "residue"
    /\ last.op = "mutateResidue"
    /\ last.err = "none"
    /\ uqid.id.resname = "ALA"
    /\ uqid.id.resid = 1
    /\ \E i \in Atoms(mol) : mol.resid[i + 1] = 1 /\ mol.resname[i + 1] = "GLY"
    /\ ResidueAtoms(uqid.id, mol) = {}

\* A UniqueAtomID built from a selection of atom i and one built from the
\* index i are equal.
SelAndIdxEqual(m) ==
    \A i \in Atoms(m) :
        LET a1 == AtomIDFromMolecule(m, Given({i}), None)
            a2 == AtomIDFromMolecule(m, None, Given(i))
        IN  (a1.err = "none" /\ a2.err = "none") => AtomIDEq(a1.id, a2.id)

\* Atoms i and j lie in the same residue.
SameResidue(m, i, j) == \A f \in ResidueKey : m[f][i + 1] = m[f][j + 1]

\* UniqueResidueIDs built from two atoms are equal exactly when the atoms lie
\* in the same residue.
ResidueIDsCompare(m) ==
    \A i, j \in Atoms(m) :
        LET r1 == ResidueIDFromMolecule(m, Given({i}), None)
            r2 == ResidueIDFromMolecule(m, Given({j}), None)
        IN  (r1.err = "none" /\ r2.err = "none") =>
                (ResidueIDEq(r1.id, r2.id) <=> SameResidue(m, i, j))

\* The snapshot held compares equal to one built from atom i exactly when
\* all their fields are equal.
HeldCompares(m, held) ==
    \A i \in Atoms(m) :
        /\ (held.kind = "atom" /\ fromMolecule(m, i).err = "none") =>
              (AtomIDEq(held.id, fromMolecule(m, i).id)
                  <=> \A f \in AtomKey : held.id[f] = fromMolecule(m, i).id[f])
        /\ (held.kind = "residue"
              /\ ResidueIDFromMolecule(m, None, Given({i})).err = "none") =>
              (ResidueIDEq(held.id, ResidueIDFromMolecule(m, None, Given({i})).id)
                  <=> \A f \in ResidueKey :
                         held.id[f] = ResidueIDFromMolecule(m, None, Given({i})).id[f])

\* C25: two identity snapshots of the same kind compare equal exactly when all
\* their stored fields are equal: a UniqueAtomID built from a selection and
\* one built from the index of the same atom are equal; UniqueResidueIDs
\* built from two atoms of the same residue are equal; UniqueResidueIDs built
\* from atoms of residues that differ in at least one of resname, chain,
\* resid, insertion, segid are not equal.
C25_SnapshotEquality ==
    /\ SelAndIdxEqual(mol)
    /\ ResidueIDsCompare(mol)
    /\ HeldCompares(mol, uqid)

\* A residue snapshot compared in a container that holds an atom of the same
\* residue and an atom of a residue that differs from it in resid only.
C25_Witness ==
    /\ uqid.kind = "residue"
    /\ last.op = "__eq__"
    /\ \E i, j \in Atoms(mol) :
          /\ ResidueAtoms(uqid.id, mol) # {}
          /\ i \in ResidueAtoms(uqid.id, mol)
          /\ j \notin ResidueAtoms(uqid.id, mol)
          /\ mol.resname[j + 1] = uqid.id.resname
          /\ mol.resid[j + 1] # uqid.id.resid

----------------------------------------------------------------------------
(* Claims about setDihedral, checked under SpecDihedral *)

\* The bond graph as a set of unordered pairs, without the bond between a
\* and b.
BondGraphWithout(bonds, a, b) == {Range(bonds[k]) : k \in 1..Len(bonds)} \ {{a, b}}

\* The atoms connected to those of S through the edges of E.
RECURSIVE ConnectedTo(_, _)
ConnectedTo(E, S) ==
    LET T == S \cup UNION {e \in E : e \cap S # {}}
    IN  IF T = S THEN S ELSE ConnectedTo(E, T)

\* The (atom, frame) places where the coordinates of m and mf differ.
CoordsChanged(m, mf) ==
    {<<i, f>> \in Atoms(m) \X (0..(numFrames(m) - 1)) :
        mf.coords.rows[i + 1][f + 1] # m.coords.rows[i + 1][f + 1]}

DihedralSet(m, atom_quad, allbonds, r) ==
    LET E == BondGraphWithout(allbonds, atom_quad[2], atom_quad[3])
    IN  /\ r.err = "RuntimeError: Loop detected"
              <=> atom_quad[3] \in ConnectedTo(E, {atom_quad[2]})
        /\ r.err = "RuntimeError: Loop detected" => r.m = m
        /\ r.err # "RuntimeError: Loop detected" =>
              /\ Len(r.m.coords.rows) = Len(m.coords.rows)
              /\ r.m.coords.nf = m.coords.nf
              /\ \A c \in CoordsChanged(m, r.m) :
                    /\ c[1] \in ConnectedTo(E, {atom_quad[3]})
                    /\ c[2] = m.frame

\* C26: setDihedral(atom_quad, ...) raises the "Loop detected" error exactly
\* when atom_quad[1] and atom_quad[2] are still connected through the bond
\* graph after the bond between them is removed, and then no coordinate is
\* changed; otherwise only atoms reachable from atom_quad[2] without crossing
\* the atom_quad[1]-atom_quad[2] bond have their coordinates changed, and
\* only in the active frame.  (For four atoms of the molecule and bonds
\* between atoms of the molecule.)
C26_SetDihedralLoop ==
    \A atom_quad \in AtomQuads : \A turned \in 0..1 : \A rows \in DihedralBonds :
        \A passed \in BOOLEAN :
            LET allbonds == IF passed THEN rows ELSE mol.bonds \o rows
            IN  (/\ Range(atom_quad) \subseteq Atoms(mol)
                 /\ \A k \in 1..Len(allbonds) : Range(allbonds[k]) \subseteq Atoms(mol))
                    => DihedralSet(mol, atom_quad, allbonds,
                                   setDihedral(mol, atom_quad, turned,
                                               IF passed THEN Given(rows) ELSE None, rows))

\* setDihedral has returned with the second frame active: atoms of that frame
\* were turned, another atom of it was not, and the first frame is as read.
C26_Witness ==
    /\ last.op = "setDihedral"
    /\ last.err = "none"
    /\ mol.frame = 1
    /\ \E i, j \in Atoms(mol) :
          /\ mol.coords.rows[i + 1][2] >= 1000
          /\ mol.coords.rows[j + 1][2] < 1000
    /\ \A i \in Atoms(mol) : mol.coords.rows[i + 1][1] < 1000

----------------------------------------------------------------------------
(* Claims about dropFrames, checked under SpecFrames *)

\* `out` holds exactly the entries of s at the frames of keep, in their order.
EntriesOf(s, keep, out) ==
    /\ Len(out) = Len(keep)
    /\ \A i \in 1..Len(keep) : keep[i] < Len(s) /\ out[i] = s[keep[i] + 1]

\* The frames dropFrames is to leave: those listed in keep, or those not
\* listed in drop in their original order.
FramesLeft(m, keeping, idx) ==
    IF keeping THEN idx
    ELSE SortedSeq((0..(numFrames(m) - 1)) \ Range(idx))

FramesDropped(m, keep, r) ==
    /\ r.err = "none"
    /\ numFrames(r.m) = Len(keep)
    /\ Len(r.m.coords.rows) = Len(m.coords.rows)
    /\ \A a \in 1..Len(m.coords.rows) :
          EntriesOf(m.coords.rows[a], keep, r.m.coords.rows[a])
    /\ EntriesOf(m.box, keep, r.m.box)
    /\ EntriesOf(m.boxangles, keep, r.m.boxangles)
    /\ EntriesOf(m.step, keep, r.m.step)
    /\ EntriesOf(m.time, keep, r.m.time)
    /\ EntriesOf(m.fileloc, keep, r.m.fileloc)
    /\ \A k \in 1..Len(AtomFields) : r.m[AtomFields[k]] = m[AtomFields[k]]
    /\ \A k \in 1..Len(ConnectivityFields) :
          r.m[ConnectivityFields[k]] = m[ConnectivityFields[k]]
    /\ r.m.frame = 0

\* C27: dropFrames(keep=K) leaves exactly the frames listed in K, and
\* dropFrames(drop=D) leaves exactly the frames not in D in their original
\* order; afterwards numFrames equals the number of kept frames, box,
\* boxangles, step, time and fileloc hold exactly the entries of the kept
\* frames, the per-atom fields and connectivity are unchanged, and the active
\* frame is 0; passing both keep and drop raises and changes nothing.  (For
\* lists of frames of the container.)
C27_DropFramesExact ==
    \A idx \in FrameLists :
        Range(idx) \subseteq 0..(numFrames(mol) - 1) =>
            /\ \A keeping \in BOOLEAN :
                  FramesDropped(mol, FramesLeft(mol, keeping, idx),
                                dropFrames(mol, DropArg(keeping, idx)))
            /\ \A drop \in FrameLists :
                  /\ dropFrames(mol, DropBoth(idx, drop)).err # "none"
                  /\ dropFrames(mol, DropBoth(idx, drop)).m = mol

----------------------------------------------------------------------------
(* Claims about the storage of two Molecules, checked under SpecShare *)

\* The calls that change the container in place.
InPlaceCalls == {"set", "moveBy", "renumberResidues", "insert again"}

\* C28: a container never shares field storage with another Molecule: after
\* copy(), and after insert or append of a molecule mol (into an empty
\* container too), a later in-place change of the container (set on a
\* per-atom field or on coords, moveBy, renumberResidues, the shift of the
\* bond endpoints by a further insert) leaves every field of the copy / of
\* mol unchanged, and a change of the copy / of mol leaves the container
\* unchanged.
C28_NoSharedStorage ==
    [][/\ (peer.kind # "none" /\ last'.op \in InPlaceCalls) => peer'.m = peer.m
       /\ last'.op = "peer.set" => mol' = mol]_vars

----------------------------------------------------------------------------
(* C29 *)

\* What C29 expects of property p after a read that merged into `merged` and
\* was given guess, guessNE and the guessed values g.
GuessExpected(merged, p, guess, guessNE, g) ==
    IF guess.given /\ p \in guess.val THEN g[p]
    ELSE IF guessNE.given /\ p \in guessNE.val /\ Len(merged[p]) = 0 THEN g[p]
    ELSE merged[p]

\* The reads C29 speaks of: guessNE naming p with guess left unset, or guess
\* naming p.
GuessNamed(p, guess, guessNE) ==
    \/ ~guess.given /\ guessNE.given /\ p \in guessNE.val
    \/ guess.given /\ p \in guess.val

\* C29: a read with guessNE naming a property and guess left unset completes
\* without error and replaces the property by the guessed one exactly when the
\* merged molecule has none of it; a read with guess naming the property
\* always replaces it; guessed bonds come with one "un" bondtype each.
C29_GuessReplaces ==
    \A c \in GuessReadCalls : \A guess \in GuessArgs : \A guessNE \in GuessArgs :
        LET merged == DoRead(mol, c, TRUE)
        IN  merged.err = "none" =>
              \A g \in Guesses(numAtoms(merged.m)) :
                LET r == readGuessing(mol, c, guess, guessNE, g)
                IN  \A p \in Properties :
                      GuessNamed(p, guess, guessNE) =>
                        /\ ~guess.given => r.err = "none"
                        /\ r.m[p] = GuessExpected(merged.m, p, guess, guessNE, g)
                        /\ (p = "bonds" /\ r.m.bonds # merged.m.bonds) =>
                              r.m.bondtype = [i \in 1..Len(r.m.bonds) |-> "un"]

----------------------------------------------------------------------------
(* C30 *)

\* The container's and the incoming names are the same set in a different
\* order and the container's names repeat.
SameNamesNotUnique(m, mo) ==
    /\ NamesDiffer(m, mo)
    /\ Range(m.name) = Range(mo.name)
    /\ ~PairwiseDistinct(m.name)

\* The merge went through without reordering: the incoming molecule is left
\* as read and every field it carries is the container's.
OverwrittenAsRead(m, mo, r) ==
    /\ r.err = "none"
    /\ r.mo = mo
    /\ \A k \in 1..Len(TopoFields) :
          (TopoFields[k] # "element" /\ ~AllDefault(TopoFields[k], mo[TopoFields[k]])) =>
              r.m[TopoFields[k]] = mo[TopoFields[k]]

\* C30: when the container's and an incoming source's atom names are the same
\* set in a different order but the container's names are not unique, a merge
\* with overwrite='all' does not fail, does not reorder and overwrites all
\* fields with the incoming values; with any other overwrite policy the merge
\* fails with RuntimeError.
C30_NonUniqueNamesMerge ==
    \A file \in Files : \A ow \in OverwriteArgs :
        SameNamesNotUnique(mol, Reader(file)) =>
            IF ow = OverwriteStr("all")
            THEN OverwrittenAsRead(mol, Reader(file),
                                   MergeOneTopology(mol, Reader(file), NormalizeOverwrite(ow)))
            ELSE MergeOneTopology(mol, Reader(file), NormalizeOverwrite(ow)).err
                    = "RuntimeError"

====
